---------------------------- MODULE Spec2Model ----------------------------
(***************************************************************************)
(* Extraction / validation / statistics pipeline of the MLS report         *)
(* analytics repository.                                                   *)
(*                                                                         *)
(*   utils/mls-validator.ts         extractMLSData   (src/unnamed/part_004)*)
(*   utils/pdf-processor.ts         processPDF, validatePDFContent,        *)
(*                                  retryProcessing                        *)
(*   utils/market-data-validator.ts assertion validator (part_003)         *)
(*   collector validator            validateMLSReport (part_004:20-59)     *)
(*                                                                         *)
(* JavaScript values are modelled as follows.  A string whose characters   *)
(* matter (a regex capture that is later parsed or reformatted) is a       *)
(* sequence of one-character strings.  An object with optional keys is a   *)
(* function whose DOMAIN is its key set.  A number that can be fractional  *)
(* or non-finite is a pair <<n, d>> : n/d for d > 0, Infinity for          *)
(* <<n, 0>> with n > 0, NaN for <<0, 0>>.                                  *)
(***************************************************************************)
EXTENDS Integers, Sequences, FiniteSets, TLC

VARIABLES
    pc,               \* position of the running operation
    text,             \* the input text, as its sequence of lines
    i,                \* extractMLSData: loop index (1-based)
    currentProperty,  \* extractMLSData: the accumulator
    properties,       \* extractMLSData: flushed properties
    report,           \* extractMLSData: the returned report (or NoReport)
    maxAttempts,      \* retryProcessing: parameter
    attempt,          \* retryProcessing: attempt counter
    lastError,        \* retryProcessing: last caught error, or Null
    calls,            \* number of extractMLSData invocations so far
    pdfData,          \* processPDF: what pdf(fileBuffer) resolved to
    thrown,           \* processPDF: the exception caught, or Null
    result            \* value the running operation returned

extractVars == <<i, currentProperty, properties, report>>

retryVars == <<maxAttempts, attempt, lastError>>

pdfVars == <<pdfData, thrown>>

vars == <<pc, text, i, currentProperty, properties, report,
          maxAttempts, attempt, lastError, calls, pdfData, thrown, result>>

(***************************************************************************)
(* Bounds of the model.                                                    *)
(***************************************************************************)
MaxLines == 4

\* longest text handed to the PDF pipeline, and largest maxAttempts
MaxDocLines == 2

MaxAttemptsBound == 3

(***************************************************************************)
(* JavaScript numbers.                                                     *)
(***************************************************************************)
Num(n) == <<n, 1>>

Infinity == <<1, 0>>

NaN == <<0, 0>>

IsFinite(x) == x[2] # 0

Abs(n) == IF n < 0 THEN -n ELSE n

\* x / y for non-negative x, y: JavaScript never throws on a zero divisor.
DivNum(x, y) ==
    IF ~IsFinite(x) \/ ~IsFinite(y) THEN
        (IF IsFinite(y) /\ y[1] # 0 /\ x[1] # 0 THEN Infinity
         ELSE IF IsFinite(x) /\ y[1] # 0 THEN Num(0)
         ELSE NaN)
    ELSE IF y[1] = 0 THEN (IF x[1] = 0 THEN NaN ELSE Infinity)
    ELSE <<x[1] * y[2], x[2] * y[1]>>

\* Math.round: floor(x + 1/2); Infinity and NaN are returned unchanged.
MathRound(x) ==
    IF ~IsFinite(x) THEN x ELSE Num((2 * x[1] + x[2]) \div (2 * x[2]))

\* a + b where both are integers or Infinity (as produced by MathRound).
AddNum(a, b) ==
    IF IsFinite(a) /\ IsFinite(b) THEN Num(a[1] + b[1])
    ELSE IF a = NaN \/ b = NaN THEN NaN
    ELSE Infinity

\* x || 1  (the falsy numbers are 0 and NaN)
OrOne(x) == IF x[1] = 0 THEN Num(1) ELSE x

(***************************************************************************)
(* Strings as character sequences.                                         *)
(***************************************************************************)
Digits == {"0", "1", "2", "3", "4", "5", "6", "7", "8", "9"}

DigitVal(c) ==
    CASE c = "0" -> 0 [] c = "1" -> 1 [] c = "2" -> 2 [] c = "3" -> 3
      [] c = "4" -> 4 [] c = "5" -> 5 [] c = "6" -> 6 [] c = "7" -> 7
      [] c = "8" -> 8 [] c = "9" -> 9

\* s.replace(/<chars>/g, '')
RECURSIVE Strip(_, _)
Strip(s, chars) ==
    IF s = <<>> THEN <<>>
    ELSE IF Head(s) \in chars THEN Strip(Tail(s), chars)
    ELSE <<Head(s)>> \o Strip(Tail(s), chars)

\* parseInt(s, 10) of a non-empty string that starts with a digit: the
\* leading run of digits, anything after it ignored.
RECURSIVE ParseIntFrom(_, _)
ParseIntFrom(s, acc) ==
    IF s = <<>> \/ Head(s) \notin Digits THEN acc
    ELSE ParseIntFrom(Tail(s), 10 * acc + DigitVal(Head(s)))

ParseInt(s) == ParseIntFrom(s, 0)

(***************************************************************************)
(* Text lines.  A line is described by what the recognizers of             *)
(* extractMLSData find in it after trim(): each *Match field is the first  *)
(* capture group of the corresponding regular expression, NoMatch when the *)
(* expression does not match.  `sold` is line.toLowerCase().includes(      *)
(* 'sold'); `indicator` tells whether one of the five mlsIndicators of     *)
(* validatePDFContent matches.                                             *)
(***************************************************************************)
NoMatch == <<"null">>

Line(blank, mls, addr, price, sold, bed, bath, sqft, indicator) ==
    [blank |-> blank, mlsMatch |-> mls, addressMatch |-> addr,
     priceMatch |-> price, sold |-> sold, bedroomMatch |-> bed,
     bathroomMatch |-> bath, sqftMatch |-> sqft, indicator |-> indicator]

\* ""
LBlank == Line(TRUE, NoMatch, NoMatch, NoMatch, FALSE, NoMatch, NoMatch, NoMatch, FALSE)
\* "MLS#10-01"
LMlsA == Line(FALSE, <<"1", "0", "-", "0", "1">>, NoMatch, NoMatch, FALSE, NoMatch, NoMatch, NoMatch, TRUE)
\* "MLS 2002"
LMlsB == Line(FALSE, <<"2", "0", "0", "2">>, NoMatch, NoMatch, FALSE, NoMatch, NoMatch, NoMatch, FALSE)
\* "123 Main St"
LAddr == Line(FALSE, NoMatch, <<"123 Main St">>, NoMatch, FALSE, NoMatch, NoMatch, NoMatch, FALSE)
\* "List Price: $5,000"
LList == Line(FALSE, NoMatch, NoMatch, <<"5", ",", "0", "0", "0">>, FALSE, NoMatch, NoMatch, NoMatch, TRUE)
\* "Sold Price: $4,500"
LSold == Line(FALSE, NoMatch, NoMatch, <<"4", ",", "5", "0", "0">>, TRUE, NoMatch, NoMatch, NoMatch, TRUE)
\* "Sold Price: $0"
LSoldZero == Line(FALSE, NoMatch, NoMatch, <<"0">>, TRUE, NoMatch, NoMatch, NoMatch, TRUE)
\* "3 beds, 2 baths"
LBedBath == Line(FALSE, NoMatch, NoMatch, NoMatch, FALSE, <<"3">>, <<"2">>, NoMatch, TRUE)
\* "2.5 baths"
LBath == Line(FALSE, NoMatch, NoMatch, NoMatch, FALSE, NoMatch, <<"2", ".", "5">>, NoMatch, TRUE)
\* "2,000 sqft"
LSqft == Line(FALSE, NoMatch, NoMatch, NoMatch, FALSE, NoMatch, NoMatch, <<"2", ",", "0", "0", "0">>, TRUE)
\* "Random content"
LOther == Line(FALSE, NoMatch, NoMatch, NoMatch, FALSE, NoMatch, NoMatch, NoMatch, FALSE)

Lines == {LBlank, LMlsA, LMlsB, LAddr, LList, LSold, LSoldZero, LBedBath,
          LBath, LSqft, LOther}

\* text.split('\n') has at least one element: '' splits into <<LBlank>>
TextsUpTo(n) == UNION {[1..m -> Lines] : m \in 1..n}

Texts == TextsUpTo(MaxLines)

Null == [null |-> TRUE]

(***************************************************************************)
(* Objects with optional keys.                                             *)
(***************************************************************************)
EmptyObject == [k \in {} |-> 0]

Has(obj, key) == key \in DOMAIN obj

Put(obj, key, val) ==
    [k \in DOMAIN obj \cup {key} |-> IF k = key THEN val ELSE obj[k]]

\* reading a key the object lacks gives undefined
Undefined == [undefined |-> TRUE]

Get(obj, key) == IF Has(obj, key) THEN obj[key] ELSE Undefined

\* obj.key used as a condition, for a numeric key
TruthyInt(obj, key) == Has(obj, key) /\ obj[key] # 0

\* obj.key used as a condition, for a string key
TruthyStr(obj, key) == Has(obj, key) /\ obj[key] # <<>>

(***************************************************************************)
(* extractMLSData: the scan loop.                                          *)
(***************************************************************************)
NewProperty(mlsMatch) ==
    [mlsNumber |-> Strip(mlsMatch, {"-", " "}),
     city |-> "Plano", bedrooms |-> 0,
     bathrooms |-> <<"0", "/", "0", "/", "0">>,
     sqft |-> 0, yearBuilt |-> 0, garage |-> "", pool |-> FALSE,
     acres |-> 0, pricePerSqft |-> Num(0), listPrice |-> 0]

\* Object.keys(currentProperty).length > 0 && currentProperty.mlsNumber
Pending(cur) == DOMAIN cur # {} /\ TruthyStr(cur, "mlsNumber")

Flush(cur, props) == IF Pending(cur) THEN Append(props, cur) ELSE props

\* The branch of the loop body a line takes: the first recognizer that
\* matches, in the order of the source (`&& currentProperty` is always
\* truthy: the accumulator is an object).
Recognizer(line) ==
    IF line.blank THEN "skip"
    ELSE IF line.mlsMatch # NoMatch THEN "mls"
    ELSE IF line.addressMatch # NoMatch THEN "address"
    ELSE IF line.priceMatch # NoMatch THEN "price"
    ELSE IF line.bedroomMatch # NoMatch THEN "bedrooms"
    ELSE IF line.bathroomMatch # NoMatch THEN "bathrooms"
    ELSE IF line.sqftMatch # NoMatch THEN "sqft"
    ELSE "none"

\* An MLS line that renames the accumulator instead of replacing it.
OnMLSKeepFields(cur, props, line) ==
    [cur |-> IF Pending(cur)
             THEN Put(cur, "mlsNumber", Strip(line.mlsMatch, {"-", " "}))
             ELSE NewProperty(line.mlsMatch),
     props |-> Flush(cur, props)]

OnMLS(cur, props, line) ==
    [cur |-> NewProperty(line.mlsMatch), props |-> Flush(cur, props)]

OnAddress(cur, props, line) ==
    [cur |-> Put(cur, "address", line.addressMatch[1]), props |-> props]

OnPrice(cur, props, line) ==
    LET price == ParseInt(Strip(line.priceMatch, {","}))
    IN  [cur |-> IF line.sold THEN Put(cur, "soldPrice", price)
                 ELSE Put(cur, "listPrice", price),
         props |-> props]

OnBedrooms(cur, props, line) ==
    [cur |-> Put(cur, "bedrooms", ParseInt(line.bedroomMatch)), props |-> props]

OnBathrooms(cur, props, line) ==
    [cur |-> Put(cur, "bathrooms", line.bathroomMatch \o <<"/", "0", "/", "0">>),
     props |-> props]

OnSqft(cur, props, line) ==
    LET sqft == ParseInt(Strip(line.sqftMatch, {","}))
        withSqft == Put(cur, "sqft", sqft)
    IN  [cur |-> IF TruthyInt(cur, "listPrice")
                 THEN Put(withSqft, "pricePerSqft",
                          MathRound(DivNum(Num(cur.listPrice), Num(sqft))))
                 ELSE withSqft,
         props |-> props]

\* One iteration of the loop body.
ScanLine(cur, props, line) ==
    LET r == Recognizer(line)
    IN  CASE r = "mls"       -> OnMLS(cur, props, line)
          [] r = "address"   -> OnAddress(cur, props, line)
          [] r = "price"     -> OnPrice(cur, props, line)
          [] r = "bedrooms"  -> OnBedrooms(cur, props, line)
          [] r = "bathrooms" -> OnBathrooms(cur, props, line)
          [] r = "sqft"      -> OnSqft(cur, props, line)
          [] OTHER           -> [cur |-> cur, props |-> props]

\* The whole loop over lines[from..], as a fold of the loop body.
RECURSIVE ScanFrom(_, _, _, _)
ScanFrom(lines, from, cur, props) ==
    IF from > Len(lines) THEN [cur |-> cur, props |-> props]
    ELSE LET next == ScanLine(cur, props, lines[from])
         IN  ScanFrom(lines, from + 1, next.cur, next.props)

(***************************************************************************)
(* extractMLSData: partition into buckets.                                 *)
(***************************************************************************)
RECURSIVE SelectSeqBy(_, _)
SelectSeqBy(s, keep) ==
    IF s = <<>> THEN <<>>
    ELSE IF keep[Head(s)] THEN <<Head(s)>> \o SelectSeqBy(Tail(s), keep)
    ELSE SelectSeqBy(Tail(s), keep)

\* if (property.soldPrice)
IsClosed(property) == TruthyInt(property, "soldPrice")

ClosedOf(props) ==
    SelectSeqBy(props, [p \in {props[k] : k \in DOMAIN props} |-> IsClosed(p)])

ActiveOf(props) ==
    SelectSeqBy(props, [p \in {props[k] : k \in DOMAIN props} |-> ~IsClosed(p)])

(***************************************************************************)
(* extractMLSData: statistics.                                             *)
(***************************************************************************)
RECURSIVE SumNum(_)
SumNum(xs) == IF xs = <<>> THEN Num(0) ELSE AddNum(Head(xs), SumNum(Tail(xs)))

\* prices.length ? Math.round(sum / prices.length) : 0
calculateAverage(prices) ==
    IF Len(prices) # 0 THEN MathRound(DivNum(SumNum(prices), Num(Len(prices))))
    ELSE Num(0)

RECURSIVE Insert(_, _)
Insert(x, sorted) ==
    IF sorted = <<>> THEN <<x>>
    ELSE IF x <= Head(sorted) THEN <<x>> \o sorted
    ELSE <<Head(sorted)>> \o Insert(x, Tail(sorted))

RECURSIVE SortAsc(_)
SortAsc(xs) == IF xs = <<>> THEN <<>> ELSE Insert(Head(xs), SortAsc(Tail(xs)))

\* calculateMedian over finite integers (0-based index mid is sorted[mid + 1])
calculateMedian(prices) ==
    IF Len(prices) = 0 THEN Num(0)
    ELSE LET sorted == SortAsc(prices)
             mid == Len(sorted) \div 2
         IN  IF Len(sorted) % 2 # 0 THEN Num(sorted[mid + 1])
             ELSE MathRound(<<sorted[mid] + sorted[mid + 1], 2>>)

Nums(xs) == [k \in DOMAIN xs |-> Num(xs[k])]

\* x > 0 filter of a sequence of integers
Positive(xs) == SelectSeq(xs, LAMBDA x : x > 0)

\* Math.round(n * p / q) for a non-negative integer n
RoundShare(n, p, q) == MathRound(<<n * p, q>>)

\* soldPrices.length ? calculateAverage(soldPrices) /
\*                      calculateAverage(activeListPrices) : 1
ListToSoldRatio(soldPrices, activeListPrices) ==
    IF Len(soldPrices) # 0
    THEN DivNum(calculateAverage(Nums(soldPrices)),
                calculateAverage(Nums(activeListPrices)))
    ELSE Num(1)

\* The months of supply with the divisor clamped to at least 1.
MonthsOfSupplyClamped(nActive, nClosed) ==
    DivNum(Num(nActive), IF nClosed >= 3 THEN <<nClosed, 3>> ELSE Num(1))

\* activeListings.length / ((closedListings.length / 3) || 1)
MonthsOfSupply(nActive, nClosed) ==
    DivNum(Num(nActive), OrOne(<<nClosed, 3>>))

\* the statistics that are computed from the two counts alone
CountStatistics(nActive, nClosed) ==
    [totalActiveListings |-> Num(nActive),
     totalClosedSales |-> Num(nClosed),
     inventoryLevel |-> Num(nActive),
     daysOfInventory |-> Num(90),
     absorptionRate |-> DivNum(Num(nClosed), OrOne(Num(nActive))),
     newListings |-> RoundShare(nActive, 25, 100),
     closedListings |-> Num(nClosed),
     pendingListings |-> RoundShare(nActive, 10, 100),
     canceledListings |-> RoundShare(nActive, 5, 100),
     monthsOfSupply |-> MonthsOfSupply(nActive, nClosed)]

Statistics(activeListings, closedListings) ==
    LET activeListPrices ==
            Positive([k \in DOMAIN activeListings |-> activeListings[k].listPrice])
        soldPrices ==
            Positive([k \in DOMAIN closedListings |->
                         IF TruthyInt(closedListings[k], "soldPrice")
                         THEN closedListings[k].soldPrice ELSE 0])
        \* the extractor never sets daysOnMarket: p.daysOnMarket || 0 is 0
        daysOnMarket == [k \in DOMAIN closedListings |-> 0]
        all == activeListings \o closedListings
        nActive == Len(activeListings)
        nClosed == Len(closedListings)
    IN  [averageListPrice |-> calculateAverage(Nums(activeListPrices)),
         medianListPrice |-> calculateMedian(activeListPrices),
         averageSoldPrice |-> calculateAverage(Nums(soldPrices)),
         medianSoldPrice |-> calculateMedian(soldPrices),
         averageDaysOnMarket |-> calculateAverage(Nums(daysOnMarket)),
         medianDaysOnMarket |-> calculateMedian(daysOnMarket),
         averagePrice |-> calculateAverage(Nums(activeListPrices \o soldPrices)),
         medianPrice |-> calculateMedian(activeListPrices \o soldPrices),
         pricePerSquareFoot |->
             calculateAverage([k \in DOMAIN all |-> all[k].pricePerSqft]),
         listToSoldRatio |-> ListToSoldRatio(soldPrices, activeListPrices)]
        @@ CountStatistics(nActive, nClosed)

StatisticsFields ==
    {"averageListPrice", "medianListPrice", "averageSoldPrice", "medianSoldPrice",
     "averageDaysOnMarket", "medianDaysOnMarket", "totalActiveListings",
     "totalClosedSales", "averagePrice", "medianPrice", "pricePerSquareFoot",
     "inventoryLevel", "daysOfInventory", "absorptionRate", "newListings",
     "closedListings", "pendingListings", "canceledListings", "listToSoldRatio",
     "monthsOfSupply"}

\* The report returned by extractMLSData (the fields the pipeline reads).
BuildReport(props) ==
    LET activeListings == ActiveOf(props)
        closedListings == ClosedOf(props)
    IN  [mlsNumber |-> IF props # <<>> /\ TruthyStr(props[1], "mlsNumber")
                       THEN props[1].mlsNumber ELSE <<"UNKNOWN">>,
         activeListings |-> activeListings,
         closedListings |-> closedListings,
         statistics |-> Statistics(activeListings, closedListings)]

\* extractMLSData(text) as a function of the text
extractMLSData(lines) ==
    LET scanned == ScanFrom(lines, 1, EmptyObject, <<>>)
    IN  BuildReport(Flush(scanned.cur, scanned.props))

NoReport == [mlsNumber |-> <<"null">>]

(***************************************************************************)
(* extractMLSData as a process: one step per loop iteration, then the      *)
(* final flush, then partition and statistics.                             *)
(***************************************************************************)
InitExtract ==
    /\ text \in Texts
    /\ pc = "scan"
    /\ i = 1
    /\ currentProperty = EmptyObject
    /\ properties = <<>>
    /\ report = NoReport
    /\ maxAttempts = 0 /\ attempt = 0 /\ lastError = Null
    /\ calls = 0 /\ pdfData = Null /\ thrown = Null /\ result = Null

Scan(branch) ==
    /\ pc = "scan"
    /\ i <= Len(text)
    /\ Recognizer(text[i]) = branch
    /\ LET next == ScanLine(currentProperty, properties, text[i])
       IN  /\ currentProperty' = next.cur
           /\ properties' = next.props
    /\ i' = i + 1
    /\ UNCHANGED <<pc, text, report, retryVars, calls, pdfVars, result>>

SkipLine == Scan("skip") \/ Scan("none")

MatchMLS == Scan("mls")

MatchAddress == Scan("address")

MatchPrice == Scan("price")

MatchBedrooms == Scan("bedrooms")

MatchBathrooms == Scan("bathrooms")

MatchSqft == Scan("sqft")

\* "Add the last property if exists"
FlushLast ==
    /\ pc = "scan"
    /\ i > Len(text)
    /\ properties' = Flush(currentProperty, properties)
    /\ pc' = "flushed"
    /\ UNCHANGED <<text, i, currentProperty, report, retryVars, calls, pdfVars, result>>

\* partition, statistics, return
Return ==
    /\ pc = "flushed"
    /\ report' = BuildReport(properties)
    /\ pc' = "done"
    /\ UNCHANGED <<text, i, currentProperty, properties, retryVars, calls, pdfVars, result>>

NextExtract ==
    \/ SkipLine
    \/ MatchMLS
    \/ MatchAddress
    \/ MatchPrice
    \/ MatchBedrooms
    \/ MatchBathrooms
    \/ MatchSqft
    \/ FlushLast
    \/ Return

SpecExtract == InitExtract /\ [][NextExtract]_vars

(***************************************************************************)
(* pdf-processor.ts: validatePDFContent and retryProcessing.               *)
(***************************************************************************)
\* mlsIndicators.some(pattern => pattern.test(text))
validatePDFContent(lines) == \E k \in DOMAIN lines : lines[k].indicator

\* data.activeListings.length || data.closedListings.length
HasListings(data) ==
    Len(data.activeListings) # 0 \/ Len(data.closedListings) # 0

\* extractMLSData on the texts handed to the pipeline (@@ makes the model
\* checker tabulate the function once instead of at every application)
Extractor == [t \in TextsUpTo(MaxDocLines) |-> extractMLSData(t)] @@ EmptyObject

\* The errors an Extractor can throw: utils/mls-validator's extractMLSData
\* returns for every string; the stub extractMLSData of the collector
\* validator module throws, and so can a test double.
ExtractorErrors == {[isError |-> TRUE, message |-> "Not implemented"]}

\* while (attempt < maxAttempts)
LoopContinuesInclusive == attempt <= maxAttempts

LoopContinues == attempt < maxAttempts

InitRetry ==
    /\ text \in TextsUpTo(MaxDocLines)
    /\ maxAttempts \in 0..MaxAttemptsBound
    /\ pc = "retry"
    /\ attempt = 0
    /\ lastError = Null
    /\ calls = 0
    /\ result = Null
    /\ pdfData = Null /\ thrown = Null
    /\ i = 1 /\ currentProperty = EmptyObject /\ properties = <<>>
    /\ report = NoReport

\* The content sniff without its early return.
SniffRejectsFallsThrough ==
    /\ pc = "retry"
    /\ ~validatePDFContent(text)
    /\ pc' = "loop"
    /\ UNCHANGED <<text, extractVars, retryVars, calls, pdfVars, result>>

\* if (!validatePDFContent(text)) return null;
SniffRejects ==
    /\ pc = "retry"
    /\ ~validatePDFContent(text)
    /\ result' = Null
    /\ pc' = "returned"
    /\ UNCHANGED <<text, extractVars, retryVars, calls, pdfVars>>

SniffAccepts ==
    /\ pc = "retry"
    /\ validatePDFContent(text)
    /\ pc' = "loop"
    /\ UNCHANGED <<text, extractVars, retryVars, calls, pdfVars, result>>

\* try { data = extractMLSData(text); if (listings) return data; }
AttemptReturns ==
    /\ pc = "loop"
    /\ LoopContinues
    /\ LET data == Extractor[text]
       IN  /\ HasListings(data)
           /\ result' = data
    /\ calls' = calls + 1
    /\ pc' = "returned"
    /\ UNCHANGED <<text, extractVars, retryVars, pdfVars>>

\* ... no listings: attempt++
AttemptEmpty ==
    /\ pc = "loop"
    /\ LoopContinues
    /\ ~HasListings(Extractor[text])
    /\ calls' = calls + 1
    /\ attempt' = attempt + 1
    /\ UNCHANGED <<pc, text, extractVars, maxAttempts, lastError, pdfVars, result>>

\* catch (error) { lastError = ... }  attempt++
AttemptThrows ==
    /\ pc = "loop"
    /\ LoopContinues
    /\ \E e \in ExtractorErrors : lastError' = e
    /\ calls' = calls + 1
    /\ attempt' = attempt + 1
    /\ UNCHANGED <<pc, text, extractVars, maxAttempts, pdfVars, result>>

\* loop exit: (console.error if lastError) return null
GiveUp ==
    /\ pc = "loop"
    /\ ~LoopContinues
    /\ result' = Null
    /\ pc' = "returned"
    /\ UNCHANGED <<text, extractVars, retryVars, calls, pdfVars>>

NextRetry ==
    \/ SniffRejects
    \/ SniffAccepts
    \/ AttemptReturns
    \/ AttemptEmpty
    \/ AttemptThrows
    \/ GiveUp

SpecRetry == InitRetry /\ [][NextRetry]_vars /\ WF_vars(NextRetry)

(***************************************************************************)
(* pdf-processor.ts: processPDF.                                           *)
(***************************************************************************)
\* What pdf(fileBuffer) can throw or reject with: an Error (the messages
\* are those of the test double of pdf-parse), or a value that is not an
\* Error.
PdfErrors ==
    {[isError |-> TRUE, message |-> "Empty PDF"],
     [isError |-> TRUE, message |-> "Failed to parse PDF"],
     [isError |-> FALSE, value |-> "rejected"]}

\* new PDFProcessingError('Failed to extract text from PDF')
NoTextError == [isError |-> TRUE, message |-> "Failed to extract text from PDF"]

\* '' is the text of one empty line
EmptyText == <<LBlank>>

\* A catch block that reads error.message without the instanceof test.
CatchResultNoInstanceOf(error) ==
    IF error.isError THEN [success |-> FALSE, error |-> error.message]
    ELSE [success |-> FALSE]

\* catch (error) { ... }: rawText: undefined is an absent key
CatchResult(error) ==
    IF error.isError THEN
        IF error.message = "Empty PDF"
        THEN [success |-> FALSE, error |-> "Empty PDF"]
        ELSE [success |-> FALSE, error |-> error.message]
    ELSE [success |-> FALSE, error |-> "Unknown error during PDF processing"]

InitProcessPDF ==
    /\ text \in TextsUpTo(MaxDocLines)
    /\ pc = "parse"
    /\ pdfData = Null
    /\ thrown = Null
    /\ result = Null
    /\ calls = 0
    /\ maxAttempts = 0 /\ attempt = 0 /\ lastError = Null
    /\ i = 1 /\ currentProperty = EmptyObject /\ properties = <<>>
    /\ report = NoReport

\* pdfData = await pdf(fileBuffer): rejected or thrown
PdfRejects ==
    /\ pc = "parse"
    /\ \E e \in PdfErrors : thrown' = e
    /\ pc' = "catch"
    /\ UNCHANGED <<text, extractVars, retryVars, calls, pdfData, result>>

\* pdfData = await pdf(fileBuffer): resolved, with the text or with nothing
PdfResolves ==
    /\ pc = "parse"
    /\ \E d \in {[text |-> text], [none |-> TRUE]} : pdfData' = d
    /\ pc' = "parsed"
    /\ UNCHANGED <<text, extractVars, retryVars, calls, thrown, result>>

\* !pdfData || !pdfData.text
NoText(d) == IF Has(d, "text") THEN d.text = EmptyText ELSE TRUE

\* if (!pdfData || !pdfData.text) throw new PDFProcessingError(...)
ThrowNoText ==
    /\ pc = "parsed"
    /\ NoText(pdfData)
    /\ thrown' = NoTextError
    /\ pc' = "catch"
    /\ UNCHANGED <<text, extractVars, retryVars, calls, pdfData, result>>

\* steps 2-4: extractMLSData returned
ExtractAndReturn ==
    /\ pc = "parsed"
    /\ ~NoText(pdfData)
    /\ LET mlsData == Extractor[pdfData.text]
       IN  result' =
               IF Len(mlsData.activeListings) = 0 /\ Len(mlsData.closedListings) = 0
               THEN [success |-> FALSE, error |-> "No listings found in PDF",
                     rawText |-> pdfData.text]
               ELSE [success |-> TRUE, data |-> mlsData, rawText |-> pdfData.text]
    /\ calls' = calls + 1
    /\ pc' = "returned"
    /\ UNCHANGED <<text, extractVars, retryVars, pdfVars>>

\* step 2: extractMLSData threw
ExtractThrows ==
    /\ pc = "parsed"
    /\ ~NoText(pdfData)
    /\ \E e \in ExtractorErrors : thrown' = e
    /\ calls' = calls + 1
    /\ pc' = "catch"
    /\ UNCHANGED <<text, extractVars, retryVars, pdfData, result>>

Catch ==
    /\ pc = "catch"
    /\ result' = CatchResult(thrown)
    /\ pc' = "returned"
    /\ UNCHANGED <<text, extractVars, retryVars, calls, pdfVars>>

NextProcessPDF ==
    \/ PdfRejects
    \/ PdfResolves
    \/ ThrowNoText
    \/ ExtractAndReturn
    \/ ExtractThrows
    \/ Catch

SpecProcessPDF == InitProcessPDF /\ [][NextProcessPDF]_vars

(***************************************************************************)
(* utils/market-data-validator.ts: the assertion-style validator.          *)
(*                                                                         *)
(* Numbers that can be fractional are pairs <<n, d>> as above (n may be    *)
(* negative); prices, volumes and counts that the rules only compare with  *)
(* integers are integers.  A ValidationError is a record with its message  *)
(* and its field; message and field are sequences of strings so that the   *)
(* template literals of the source (`priceHistory[${index}].date`) keep    *)
(* their parts: <<"priceHistory", "1", "date">>.  The typeof tests of the  *)
(* type guards are key-presence tests here: a key that is present holds a  *)
(* value of the declared type.                                             *)
(***************************************************************************)
\* x > y : false when an operand is NaN
Gt(x, y) ==
    IF x = NaN \/ y = NaN THEN FALSE
    ELSE IF ~IsFinite(y) THEN FALSE
    ELSE IF ~IsFinite(x) THEN TRUE
    ELSE x[1] * y[2] > y[1] * x[2]

\* x < y
Lt(x, y) == Gt(y, x)

\* x >= y
Ge(x, y) == x # NaN /\ y # NaN /\ ~Gt(y, x)

\* x <= y
Le(x, y) == Ge(y, x)

\* Math.abs(x - y)
AbsDiff(x, y) ==
    IF x = NaN \/ y = NaN THEN NaN
    ELSE IF ~IsFinite(x) /\ ~IsFinite(y) THEN NaN
    ELSE IF ~IsFinite(x) \/ ~IsFinite(y) THEN Infinity
    ELSE <<Abs(x[1] * y[2] - y[1] * x[2]), x[2] * y[2]>>

\* Math.abs(a / b) for integers a, b
AbsQuot(a, b) ==
    IF b = 0 THEN (IF a = 0 THEN NaN ELSE Infinity) ELSE <<Abs(a), Abs(b)>>

\* x + y for finite pairs
PlusNum(x, y) == <<x[1] * y[2] + y[1] * x[2], x[2] * y[2]>>

THRESHOLDS ==
    [PRICE_VOLATILITY |-> <<15, 100>>,
     MIN_CONFIDENCE |-> <<1, 2>>,
     MAX_CONFIDENCE |-> Num(1),
     MAX_SCHOOL_DISTANCE |-> Num(10),
     MIN_STUDENT_TEACHER_RATIO |-> Num(10),
     MAX_STUDENT_TEACHER_RATIO |-> Num(30),
     MAX_ABSORPTION_RATE |-> Num(100),
     MAX_PRICE_TO_INCOME_RATIO |-> Num(5),
     MAX_SEASONAL_VOLUME_CHANGE |-> <<1, 2>>,
     MAX_YOY_GROWTH |-> <<30, 100>>,
     MAX_PRICE_DEVIATION |-> <<1, 2>>,
     MIN_DAYS_ON_MARKET |-> Num(5),
     MAX_POPULATION_DENSITY |-> Num(10000)]

\* MARKET_CONDITIONS with a buyer's market starting at 7 months of supply
MARKET_CONDITIONS_SevenMonths ==
    [BUYERS_MARKET |->
         [MIN_MONTHS_SUPPLY |-> Num(7), MIN_DAYS_ON_MARKET |-> Num(60),
          MAX_ABSORPTION_RATE |-> Num(40), MAX_LIST_TO_SOLD_RATIO |-> <<95, 100>>],
     SELLERS_MARKET |->
         [MAX_MONTHS_SUPPLY |-> Num(3), MAX_DAYS_ON_MARKET |-> Num(30),
          MIN_ABSORPTION_RATE |-> Num(60), MIN_LIST_TO_SOLD_RATIO |-> <<98, 100>>]]

MARKET_CONDITIONS ==
    [BUYERS_MARKET |->
         [MIN_MONTHS_SUPPLY |-> Num(6), MIN_DAYS_ON_MARKET |-> Num(60),
          MAX_ABSORPTION_RATE |-> Num(40), MAX_LIST_TO_SOLD_RATIO |-> <<95, 100>>],
     SELLERS_MARKET |->
         [MAX_MONTHS_SUPPLY |-> Num(3), MAX_DAYS_ON_MARKET |-> Num(30),
          MIN_ABSORPTION_RATE |-> Num(60), MIN_LIST_TO_SOLD_RATIO |-> <<98, 100>>]]

\* new ValidationError(message, field)
ValidationError(message, field) ==
    [name |-> "ValidationError", message |-> message, field |-> field]

\* the function returned without throwing
Passed == [name |-> "none"]

Threw(outcome) == outcome.name # "none"

\* statements in sequence: the second runs only if the first did not throw
AndThen(first, second) == IF Threw(first) THEN first ELSE second

\* UTF-16 code unit of the characters a YYYY-MM date is made of
CharCode(c) == IF c = "-" THEN 45 ELSE 48 + DigitVal(c)

\* a <= b on strings: lexicographic by code unit, a prefix is smaller
RECURSIVE StrLe(_, _)
StrLe(a, b) ==
    IF a = <<>> THEN TRUE
    ELSE IF b = <<>> THEN FALSE
    ELSE IF Head(a) = Head(b) THEN StrLe(Tail(a), Tail(b))
    ELSE CharCode(Head(a)) < CharCode(Head(b))

\* /^\d{4}-\d{2}$/.test(date)
dateRegex(date) ==
    /\ Len(date) = 7
    /\ \A k \in {1, 2, 3, 4, 6, 7} : date[k] \in Digits
    /\ date[5] = "-"

isPricePoint(value) == {"date", "price", "volume"} \subseteq DOMAIN value

validatePricePoint(value) ==
    IF ~isPricePoint(value) THEN
        ValidationError(<<"Invalid price point structure">>, <<"structure">>)
    ELSE IF ~dateRegex(value.date) THEN
        ValidationError(<<"Invalid date format. Expected YYYY-MM">>, <<"date">>)
    ELSE IF value.price <= 0 THEN
        ValidationError(<<"Invalid price. Must be a positive number">>, <<"price">>)
    ELSE IF value.volume < 0 THEN
        ValidationError(<<"Invalid volume. Must be a positive number">>, <<"volume">>)
    ELSE Passed

isSeasonalityData(value) ==
    {"month", "averagePrice", "salesVolume"} \subseteq DOMAIN value

isForecastMetric(value) == {"priceChange", "confidence"} \subseteq DOMAIN value

isForecastData(value) ==
    /\ {"nextMonth", "nextQuarter", "nextYear"} \subseteq DOMAIN value
    /\ isForecastMetric(value.nextMonth)
    /\ isForecastMetric(value.nextQuarter)
    /\ isForecastMetric(value.nextYear)

isMarketTrends(value) ==
    /\ {"priceHistory", "seasonality", "forecast"} \subseteq DOMAIN value
    /\ \A k \in DOMAIN value.priceHistory : isPricePoint(value.priceHistory[k])
    /\ \A k \in DOMAIN value.seasonality : isSeasonalityData(value.seasonality[k])
    /\ isForecastData(value.forecast)

\* priceHistory.forEach from the 0-based index on: the first exception ends
\* the loop
RECURSIVE PriceHistoryFrom(_, _)
PriceHistoryFrom(priceHistory, index) ==
    IF index >= Len(priceHistory) THEN Passed
    ELSE LET point == priceHistory[index + 1]
             prevPoint == priceHistory[index]
             \* Math.abs((point.price - prevPoint.price) / prevPoint.price)
             priceChange == AbsQuot(point.price - prevPoint.price, prevPoint.price)
         IN  AndThen(validatePricePoint(point),
             AndThen(IF index > 0 /\ StrLe(point.date, prevPoint.date) THEN
                         ValidationError(
                             <<"Price history must be in chronological order">>,
                             <<"priceHistory", ToString(index), "date">>)
                     ELSE IF index > 0 /\
                             Gt(priceChange, THRESHOLDS.PRICE_VOLATILITY) THEN
                         ValidationError(
                             <<"Price volatility exceeds market threshold">>,
                             <<"priceHistory", ToString(index), "price">>)
                     ELSE Passed,
                     PriceHistoryFrom(priceHistory, index + 1)))

\* seasonality.forEach from the 0-based index on
RECURSIVE SeasonalityFrom(_, _)
SeasonalityFrom(seasonality, index) ==
    IF index >= Len(seasonality) THEN Passed
    ELSE LET point == seasonality[index + 1]
             volumeChange ==
                 AbsQuot(point.salesVolume - seasonality[index].salesVolume,
                         seasonality[index].salesVolume)
         IN  AndThen(IF point.month < 1 \/ point.month > 12 THEN
                         ValidationError(
                             <<"Invalid month. Must be between 1 and 12">>,
                             <<"seasonality", ToString(index), "month">>)
                     ELSE IF index > 0 /\
                             Gt(volumeChange, THRESHOLDS.MAX_SEASONAL_VOLUME_CHANGE) THEN
                         ValidationError(
                             <<"Invalid seasonal volume pattern">>,
                             <<"seasonality", ToString(index), "salesVolume">>)
                     ELSE Passed,
                     SeasonalityFrom(seasonality, index + 1))

\* Object.entries(value.forecast): the keys in insertion order
ForecastPeriods == <<"nextMonth", "nextQuarter", "nextYear">>

\* the forEach over the forecast periods, from the k-th on
RECURSIVE ForecastFrom(_, _)
ForecastFrom(forecast, k) ==
    IF k > Len(ForecastPeriods) THEN Passed
    ELSE LET period == ForecastPeriods[k]
         IN  AndThen(IF Lt(forecast[period].confidence, THRESHOLDS.MIN_CONFIDENCE) \/
                        Gt(forecast[period].confidence, THRESHOLDS.MAX_CONFIDENCE) THEN
                         ValidationError(<<"Invalid confidence value">>,
                                         <<"forecast", period, "confidence">>)
                     ELSE IF period = "nextYear" /\
                             Gt(AbsDiff(forecast[period].priceChange, Num(0)),
                                THRESHOLDS.MAX_YOY_GROWTH) THEN
                         ValidationError(
                             <<"Annual growth rate exceeds historical bounds">>,
                             <<"forecast", period, "priceChange">>)
                     ELSE Passed,
                     ForecastFrom(forecast, k + 1))

\* new ValidationError(message, 'structure')
StructureError(what) == ValidationError(<<what>>, <<"structure">>)

validateMarketTrends(value) ==
    IF ~isMarketTrends(value) THEN StructureError("Invalid market trends structure")
    ELSE AndThen(PriceHistoryFrom(value.priceHistory, 0),
         AndThen(SeasonalityFrom(value.seasonality, 0),
                 ForecastFrom(value.forecast, 1)))

SchoolTypes == {"elementary", "middle", "high"}

isSchoolInfo(value) ==
    /\ {"name", "rating", "type", "distance", "enrollment", "studentTeacherRatio"}
           \subseteq DOMAIN value
    /\ value.type \in SchoolTypes

\* validateSchoolInfo with a rating bound that excludes 10
validateSchoolInfoBelowTen(value) ==
    IF ~isSchoolInfo(value) THEN StructureError("Invalid school info structure")
    ELSE IF Lt(value.rating, Num(0)) \/ Ge(value.rating, Num(10)) THEN
        ValidationError(<<"Invalid school rating. Must be between 0 and 10">>,
                        <<"rating">>)
    ELSE IF value.type \notin SchoolTypes THEN
        ValidationError(<<"Invalid school type. Must be elementary, middle, or high">>,
                        <<"type">>)
    ELSE IF Lt(value.distance, Num(0)) \/
            Gt(value.distance, THRESHOLDS.MAX_SCHOOL_DISTANCE) THEN
        ValidationError(<<"School district outside reasonable distance">>,
                        <<"distance">>)
    ELSE IF Lt(value.studentTeacherRatio, THRESHOLDS.MIN_STUDENT_TEACHER_RATIO) \/
            Gt(value.studentTeacherRatio, THRESHOLDS.MAX_STUDENT_TEACHER_RATIO) THEN
        ValidationError(<<"Invalid student-teacher ratio">>, <<"studentTeacherRatio">>)
    ELSE Passed

validateSchoolInfo(value) ==
    IF ~isSchoolInfo(value) THEN StructureError("Invalid school info structure")
    ELSE IF Lt(value.rating, Num(0)) \/ Gt(value.rating, Num(10)) THEN
        ValidationError(<<"Invalid school rating. Must be between 0 and 10">>,
                        <<"rating">>)
    ELSE IF value.type \notin SchoolTypes THEN
        ValidationError(<<"Invalid school type. Must be elementary, middle, or high">>,
                        <<"type">>)
    ELSE IF Lt(value.distance, Num(0)) \/
            Gt(value.distance, THRESHOLDS.MAX_SCHOOL_DISTANCE) THEN
        ValidationError(<<"School district outside reasonable distance">>,
                        <<"distance">>)
    ELSE IF Lt(value.studentTeacherRatio, THRESHOLDS.MIN_STUDENT_TEACHER_RATIO) \/
            Gt(value.studentTeacherRatio, THRESHOLDS.MAX_STUDENT_TEACHER_RATIO) THEN
        ValidationError(<<"Invalid student-teacher ratio">>, <<"studentTeacherRatio">>)
    ELSE Passed

Trends == {"increasing", "decreasing", "stable"}

isDemographicMetric(value) ==
    /\ {"value", "trend", "percentChange"} \subseteq DOMAIN value
    /\ value.trend \in Trends

isEducationLevels(value) ==
    value # Undefined /\ \A level \in DOMAIN value : isDemographicMetric(value[level])

validateDemographicMetric(value) ==
    IF ~isDemographicMetric(value) THEN
        StructureError("Invalid demographic metric structure")
    ELSE IF Le(value.value, Num(0)) THEN
        ValidationError(<<"Invalid demographic value. Must be a positive number">>,
                        <<"value">>)
    ELSE IF value.trend \notin Trends THEN
        ValidationError(<<"Invalid trend. Must be increasing, decreasing, or stable">>,
                        <<"trend">>)
    ELSE Passed

PropertyRequiredFields ==
    {"mlsNumber", "address", "city", "listPrice", "bedrooms", "bathrooms",
     "sqft", "yearBuilt", "garage", "pool", "acres", "pricePerSqft"}

isProperty(value) == PropertyRequiredFields \subseteq DOMAIN value

\* the rest of s after its leading run of digits
RECURSIVE SkipDigits(_)
SkipDigits(s) ==
    IF s # <<>> /\ Head(s) \in Digits THEN SkipDigits(Tail(s)) ELSE s

\* s starts with \d+ followed by "/": what comes after the "/", else <<"no">>
DigitsSlash(s) ==
    LET rest == SkipDigits(s)
    IN  IF rest # s /\ rest # <<>> /\ Head(rest) = "/" THEN Tail(rest)
        ELSE <<"no">>

\* /^\d+\/\d+\/\d+$/.test(bathrooms)
bathroomsRegex(bathrooms) ==
    LET afterFull == DigitsSlash(bathrooms)
        afterHalf == DigitsSlash(afterFull)
    IN  /\ afterFull # <<"no">>
        /\ afterHalf # <<"no">>
        /\ afterHalf # <<>>
        /\ SkipDigits(afterHalf) = <<>>

\* A price-per-square-foot test that tolerates no difference at all.
PricePerSqftOffExact(value) ==
    Gt(AbsDiff(<<value.listPrice, value.sqft>>, value.pricePerSqft), Num(0))

\* Math.abs(value.listPrice / value.sqft - value.pricePerSqft) > 1, reached
\* with listPrice > 0 and sqft > 0
PricePerSqftOff(value) ==
    Gt(AbsDiff(<<value.listPrice, value.sqft>>, value.pricePerSqft), Num(1))

validateProperty(value) ==
    IF ~isProperty(value) THEN StructureError("Invalid property structure")
    ELSE IF value.listPrice <= 0 THEN
        ValidationError(<<"Invalid list price. Must be a positive number">>,
                        <<"listPrice">>)
    ELSE IF value.sqft <= 0 THEN
        ValidationError(<<"Invalid square footage. Must be a positive number">>,
                        <<"sqft">>)
    \* !value.address.trim(): the strings trim() empties
    ELSE IF value.address \in {"", " ", "  "} THEN
        ValidationError(<<"Invalid address">>, <<"address">>)
    ELSE IF value.bedrooms <= 0 THEN
        ValidationError(<<"Invalid number of bedrooms. Must be a positive number">>,
                        <<"bedrooms">>)
    ELSE IF ~bathroomsRegex(value.bathrooms) THEN
        ValidationError(
            <<"Invalid bathroom format. Must be in format \"full/half/quarter\"">>,
            <<"bathrooms">>)
    ELSE IF PricePerSqftOff(value) THEN
        ValidationError(<<"Invalid price per square foot">>, <<"pricePerSqft">>)
    ELSE Passed

validateMarketConditions(rep) ==
    LET statistics == rep.statistics
        buyers == MARKET_CONDITIONS.BUYERS_MARKET
        sellers == MARKET_CONDITIONS.SELLERS_MARKET
        InconsistentMarket ==
            ValidationError(<<"Inconsistent market condition indicators">>,
                            <<"statistics">>)
    IN  IF Ge(statistics.monthsOfSupply, buyers.MIN_MONTHS_SUPPLY) /\
           (\/ Gt(statistics.absorptionRate, buyers.MAX_ABSORPTION_RATE)
            \/ Gt(statistics.listToSoldRatio, buyers.MAX_LIST_TO_SOLD_RATIO)
            \/ Lt(statistics.averageDaysOnMarket, buyers.MIN_DAYS_ON_MARKET))
        THEN InconsistentMarket
        ELSE IF Le(statistics.monthsOfSupply, sellers.MAX_MONTHS_SUPPLY) /\
           (\/ Lt(statistics.absorptionRate, sellers.MIN_ABSORPTION_RATE)
            \/ Lt(statistics.listToSoldRatio, sellers.MIN_LIST_TO_SOLD_RATIO)
            \/ Gt(statistics.averageDaysOnMarket, sellers.MAX_DAYS_ON_MARKET))
        THEN InconsistentMarket
        ELSE IF Gt(statistics.averageSoldPrice, statistics.averageListPrice) /\
                Lt(statistics.listToSoldRatio, Num(1)) THEN
            ValidationError(<<"Inconsistent sale-to-list metrics">>, <<"statistics">>)
        ELSE IF Gt(AbsDiff(PlusNum(statistics.totalActiveListings,
                                   statistics.pendingListings),
                           statistics.inventoryLevel), Num(5)) THEN
            ValidationError(<<"Inconsistent inventory metrics">>, <<"statistics">>)
        ELSE Passed

\* Object.values(educationLevels).reduce((sum, metric) => sum + metric.value, 0)
EducationLevelKeys == <<"highSchool", "bachelors", "graduate">>

RECURSIVE totalEducationFrom(_, _)
totalEducationFrom(educationLevels, k) ==
    IF k > Len(EducationLevelKeys) THEN Num(0)
    ELSE IF Has(educationLevels, EducationLevelKeys[k])
    THEN PlusNum(educationLevels[EducationLevelKeys[k]].value,
                 totalEducationFrom(educationLevels, k + 1))
    ELSE totalEducationFrom(educationLevels, k + 1)

validateDemographicTrends(rep) ==
    LET demographicAnalysis == rep.demographicAnalysis
        statistics == rep.statistics
        educationLevels == Get(demographicAnalysis, "educationLevels")
        population == Get(demographicAnalysis, "population")
        medianIncome == Get(demographicAnalysis, "medianIncome")
        employmentRate == Get(demographicAnalysis, "employmentRate")
    IN  IF ~isEducationLevels(educationLevels) THEN
            ValidationError(<<"Invalid education levels structure">>,
                            <<"demographicAnalysis", "educationLevels">>)
        ELSE IF Gt(totalEducationFrom(educationLevels, 1),
                   <<11, 10>>) THEN
            ValidationError(<<"Invalid education level total">>,
                            <<"demographicAnalysis", "educationLevels">>)
        ELSE IF ~isDemographicMetric(population) THEN
            ValidationError(<<"Invalid population metric structure">>,
                            <<"demographicAnalysis", "population">>)
        ELSE IF Gt(population.value,
                   THRESHOLDS.MAX_POPULATION_DENSITY) THEN
            ValidationError(<<"Population exceeds geographic bounds">>,
                            <<"demographicAnalysis", "population">>)
        ELSE IF ~isDemographicMetric(medianIncome) THEN
            ValidationError(<<"Invalid median income metric structure">>,
                            <<"demographicAnalysis", "medianIncome">>)
        ELSE IF Gt(DivNum(statistics.medianPrice,
                          medianIncome.value),
                   THRESHOLDS.MAX_PRICE_TO_INCOME_RATIO) THEN
            ValidationError(<<"Price-to-income ratio exceeds reasonable threshold">>,
                            <<"statistics", "medianPrice">>)
        ELSE IF ~isDemographicMetric(employmentRate) THEN
            ValidationError(<<"Invalid employment rate metric structure">>,
                            <<"demographicAnalysis", "employmentRate">>)
        ELSE IF medianIncome.trend = "decreasing" /\
                employmentRate.trend = "decreasing" /\
                Gt(statistics.medianPrice, statistics.medianListPrice) THEN
            ValidationError(<<"Inconsistent trend indicators">>,
                            <<"demographicAnalysis">>)
        ELSE Passed

\* catch (error) { throw new ValidationError(`${prefix}${error.message}`,
\*                                            `${path}.${error.field}`) }
Rethrow(outcome, messagePrefix, path) ==
    IF Threw(outcome)
    THEN ValidationError(messagePrefix \o outcome.message, path \o outcome.field)
    ELSE Passed

RECURSIVE SchoolDistrictsFrom(_, _)
SchoolDistrictsFrom(schoolDistricts, index) ==
    IF index >= Len(schoolDistricts) THEN Passed
    ELSE AndThen(
             Rethrow(validateSchoolInfo(schoolDistricts[index + 1]),
                     <<"Invalid school district at index ", ToString(index), ": ">>,
                     <<"schoolDistricts", ToString(index)>>),
             SchoolDistrictsFrom(schoolDistricts, index + 1))

\* Object.entries(report.demographicAnalysis): the keys in insertion order
DemographicKeys ==
    <<"population", "medianAge", "medianIncome", "employmentRate", "educationLevels">>

\* the catch block here drops error.message
RethrowMetric(outcome, key, path) ==
    IF Threw(outcome)
    THEN ValidationError(<<"Invalid demographic metric for ">> \o key,
                         path \o outcome.field)
    ELSE Passed

RECURSIVE EducationLevelsFrom(_, _)
EducationLevelsFrom(educationLevels, k) ==
    IF k > Len(EducationLevelKeys) THEN Passed
    ELSE LET level == EducationLevelKeys[k]
         IN  AndThen(
                 IF Has(educationLevels, level)
                 THEN RethrowMetric(validateDemographicMetric(educationLevels[level]),
                                    <<"educationLevels", level>>,
                                    <<"demographicAnalysis", "educationLevels", level>>)
                 ELSE Passed,
                 EducationLevelsFrom(educationLevels, k + 1))

RECURSIVE DemographicMetricsFrom(_, _)
DemographicMetricsFrom(demographicAnalysis, k) ==
    IF k > Len(DemographicKeys) THEN Passed
    ELSE LET key == DemographicKeys[k]
         IN  AndThen(
                 IF ~Has(demographicAnalysis, key) THEN Passed
                 ELSE IF key = "educationLevels"
                 THEN EducationLevelsFrom(demographicAnalysis[key], 1)
                 ELSE RethrowMetric(validateDemographicMetric(demographicAnalysis[key]),
                                    <<key>>, <<"demographicAnalysis", key>>),
                 DemographicMetricsFrom(demographicAnalysis, k + 1))

\* index < report.activeListings.length ? 'activeListings' : 'closedListings'
Bucket(rep, index) ==
    IF index < Len(rep.activeListings) THEN "activeListings" ELSE "closedListings"

\* forEach over [...report.activeListings, ...report.closedListings]
RECURSIVE ListingsFrom(_, _)
ListingsFrom(rep, index) ==
    LET all == rep.activeListings \o rep.closedListings
    IN  IF index >= Len(all) THEN Passed
        ELSE AndThen(
                 Rethrow(validateProperty(all[index + 1]),
                         <<"Invalid property in ", Bucket(rep, index), " at index ",
                           ToString(index), ": ">>,
                         <<Bucket(rep, index), ToString(index)>>),
                 ListingsFrom(rep, index + 1))

\* the three checks that end validateMLSReport
StatisticsChecks(rep) ==
    LET statistics == rep.statistics
    IN  IF Gt(statistics.absorptionRate, THRESHOLDS.MAX_ABSORPTION_RATE) THEN
            ValidationError(<<"Invalid absorption rate. Must be between 0 and 100">>,
                            <<"statistics", "absorptionRate">>)
        ELSE IF Gt(DivNum(AbsDiff(statistics.averagePrice, statistics.medianPrice),
                          statistics.medianPrice),
                   THRESHOLDS.MAX_PRICE_DEVIATION) THEN
            ValidationError(<<"Price distribution exceeds normal bounds">>,
                            <<"statistics">>)
        ELSE IF Lt(statistics.averageDaysOnMarket, THRESHOLDS.MIN_DAYS_ON_MARKET) THEN
            ValidationError(<<"Invalid average days on market">>,
                            <<"statistics", "averageDaysOnMarket">>)
        ELSE Passed

\* An order of the stages with the closing statistics checks ahead of the
\* market conditions.
StagesStatisticsFirst ==
    <<"marketTrends", "schoolDistricts", "demographicAnalysis", "listings",
      "statistics", "marketConditions", "demographicTrends">>

\* The stages of validateMLSReport, in the order of the source.
Stages ==
    <<"marketTrends", "schoolDistricts", "demographicAnalysis", "listings",
      "marketConditions", "demographicTrends", "statistics">>

Stage(name, rep) ==
    CASE name = "marketTrends" -> validateMarketTrends(rep.marketTrends)
      [] name = "schoolDistricts" -> SchoolDistrictsFrom(rep.schoolDistricts, 0)
      [] name = "demographicAnalysis" ->
             DemographicMetricsFrom(rep.demographicAnalysis, 1)
      [] name = "listings" -> ListingsFrom(rep, 0)
      [] name = "marketConditions" -> validateMarketConditions(rep)
      [] name = "demographicTrends" -> validateDemographicTrends(rep)
      [] name = "statistics" -> StatisticsChecks(rep)

RECURSIVE StagesFrom(_, _)
StagesFrom(rep, k) ==
    IF k > Len(Stages) THEN Passed
    ELSE AndThen(Stage(Stages[k], rep), StagesFrom(rep, k + 1))

\* validateMLSReport(report): what it throws, or Passed
validateMLSReport(rep) == StagesFrom(rep, 1)

(***************************************************************************)
(* Inputs of the assertion validator.                                      *)
(***************************************************************************)
\* "2024-0m"
Date(month) == <<"2", "0", "2", "4", "-", "0", ToString(month)>>

PricePoint(date, price, volume) == [date |-> date, price |-> price, volume |-> volume]

\* 100 -> 115 is a change of exactly 15%, 100 -> 116 is above it; the last
\* three points break one point rule each ("2024" is not YYYY-MM)
PricePoints ==
    {PricePoint(Date(1), 100, 10), PricePoint(Date(2), 115, 10),
     PricePoint(Date(3), 116, 10), PricePoint(Date(2), 116, 10),
     PricePoint(Date(1), 116, 10), PricePoint(<<"2", "0", "2", "4">>, 100, 10),
     PricePoint(Date(2), 0, 10), PricePoint(Date(3), 100, -1)}

MaxHistory == 3

Histories(n) == UNION {[1..m -> PricePoints] : m \in 0..n}

SeasonalityPoint(month, salesVolume) ==
    [month |-> month, averagePrice |-> 100, salesVolume |-> salesVolume]

ForecastMetric(priceChange, confidence) ==
    [priceChange |-> priceChange, confidence |-> confidence]

\* a forecast with the given yearly change and the given confidences
Forecast(yearly, month, quarter, year) ==
    [nextMonth |-> ForecastMetric(<<1, 100>>, month),
     nextQuarter |-> ForecastMetric(<<3, 100>>, quarter),
     nextYear |-> ForecastMetric(yearly, year)]

\* confidence decreasing with the horizon, growth within bounds
ForecastValid == Forecast(<<8, 100>>, <<85, 100>>, <<75, 100>>, <<65, 100>>)

\* A placeholder whose confidences lie within the accepted range.
ForecastPlaceholderConfident ==
    [nextMonth |-> ForecastMetric(Num(0), <<9, 10>>),
     nextQuarter |-> ForecastMetric(Num(0), <<8, 10>>),
     nextYear |-> ForecastMetric(Num(0), <<7, 10>>)]

\* the placeholder extractMLSData returns
ForecastPlaceholder ==
    [nextMonth |-> ForecastMetric(Num(0), Num(0)),
     nextQuarter |-> ForecastMetric(Num(0), Num(0)),
     nextYear |-> ForecastMetric(Num(0), Num(0))]

MarketTrends(priceHistory, seasonality, forecast) ==
    [priceHistory |-> priceHistory, seasonality |-> seasonality, forecast |-> forecast]

\* The values handed to validateMarketTrends: every history up to
\* MaxHistory points; no seasonality, a steady one, month 13, a doubled
\* sales volume; the two forecasts above, a yearly change of -35%, a
\* confidence rising with the horizon; and two values that fail
\* isMarketTrends (no forecast, a forecast without nextYear).
TrendsInputs ==
    LET Seasonalities ==
            {<<>>, <<SeasonalityPoint(1, 100), SeasonalityPoint(2, 95)>>,
             <<SeasonalityPoint(13, 100)>>,
             <<SeasonalityPoint(1, 100), SeasonalityPoint(2, 200)>>}
        Forecasts ==
            {ForecastValid, ForecastPlaceholder,
             Forecast(<<-35, 100>>, <<85, 100>>, <<75, 100>>, <<65, 100>>),
             Forecast(<<8, 100>>, <<60, 100>>, <<70, 100>>, <<80, 100>>)}
    IN  {MarketTrends(h, s, f) : h \in Histories(MaxHistory), s \in Seasonalities,
                                 f \in Forecasts}
        \cup {[priceHistory |-> <<>>, seasonality |-> <<>>],
              [priceHistory |-> <<>>, seasonality |-> <<>>,
               forecast |-> [nextMonth |-> ForecastMetric(Num(0), Num(1)),
                             nextQuarter |-> ForecastMetric(Num(0), Num(1))]]}

(***************************************************************************)
(* validateMarketTrends as a process: the structure test, then one step    *)
(* per loop of the function.  `report` holds the value under validation,   *)
(* `thrown` the ValidationError that ended it.                             *)
(***************************************************************************)
InitMarketTrends ==
    /\ report \in TrendsInputs
    /\ pc = "structure"
    /\ thrown = Null
    /\ result = Null
    /\ text = EmptyText
    /\ i = 1 /\ currentProperty = EmptyObject /\ properties = <<>>
    /\ maxAttempts = 0 /\ attempt = 0 /\ lastError = Null
    /\ calls = 0 /\ pdfData = Null

\* a step of a validator: it throws, or control moves on
ValidatorStep(at, outcome, next) ==
    /\ pc = at
    /\ IF Threw(outcome)
       THEN thrown' = outcome /\ pc' = "threw"
       ELSE thrown' = thrown /\ pc' = next
    /\ UNCHANGED <<text, extractVars, retryVars, calls, pdfData, result>>

CheckStructure ==
    ValidatorStep("structure",
                  IF isMarketTrends(report) THEN Passed
                  ELSE StructureError("Invalid market trends structure"),
                  "priceHistory")

CheckPriceHistory ==
    ValidatorStep("priceHistory", PriceHistoryFrom(report.priceHistory, 0),
                  "seasonality")

CheckSeasonality ==
    ValidatorStep("seasonality", SeasonalityFrom(report.seasonality, 0), "forecast")

CheckForecast ==
    ValidatorStep("forecast", ForecastFrom(report.forecast, 1), "returned")

NextMarketTrends ==
    \/ CheckStructure
    \/ CheckPriceHistory
    \/ CheckSeasonality
    \/ CheckForecast

SpecMarketTrends == InitMarketTrends /\ [][NextMarketTrends]_vars

(***************************************************************************)
(* Reports handed to validateMLSReport: every combination of the           *)
(* components below.                                                       *)
(***************************************************************************)
School(rating, type, distance, studentTeacherRatio) ==
    [name |-> "Wilson", rating |-> rating, type |-> type, distance |-> distance,
     enrollment |-> 500, studentTeacherRatio |-> studentTeacherRatio]

Metric(value, trend) == [value |-> value, trend |-> trend, percentChange |-> Num(1)]

DemographicAnalysis(population, medianIncome, highSchool) ==
    [population |-> population,
     medianAge |-> Metric(Num(35), "stable"),
     medianIncome |-> medianIncome,
     employmentRate |-> Metric(<<96, 100>>, "stable"),
     educationLevels |->
         [highSchool |-> highSchool,
          bachelors |-> Metric(<<3, 10>>, "increasing"),
          graduate |-> Metric(<<2, 10>>, "increasing")]]

\* a listing of 5000 for 2000 sqft (2.5 per sqft) with the given sqft and
\* pricePerSqft
Listing(sqft, pricePerSqft) ==
    [mlsNumber |-> <<"1", "0", "0", "1">>, address |-> "123 Main St",
     city |-> "Plano", listPrice |-> 5000, bedrooms |-> 3,
     bathrooms |-> <<"2", "/", "0", "/", "0">>, sqft |-> sqft, yearBuilt |-> 0,
     garage |-> "", pool |-> FALSE, acres |-> 0, pricePerSqft |-> pricePerSqft]

\* a balanced market (4 months of supply) that passes every statistics rule
BalancedStatistics ==
    [monthsOfSupply |-> Num(4), absorptionRate |-> Num(50),
     listToSoldRatio |-> <<97, 100>>, averageDaysOnMarket |-> Num(45),
     averageSoldPrice |-> Num(4700), averageListPrice |-> Num(4800),
     totalActiveListings |-> Num(10), pendingListings |-> Num(2),
     inventoryLevel |-> Num(12), medianPrice |-> Num(4800),
     medianListPrice |-> Num(4900), averagePrice |-> Num(5000)]

Reports ==
    LET \* steady, volatile, out of order, a negative volume, a first price
        \* of 0
        histories ==
            {<<PricePoint(Date(1), 100, 10), PricePoint(Date(2), 115, 10),
               PricePoint(Date(3), 116, 10)>>,
             <<PricePoint(Date(1), 100, 10), PricePoint(Date(2), 116, 10)>>,
             <<PricePoint(Date(2), 115, 10), PricePoint(Date(1), 100, 10)>>,
             <<PricePoint(Date(1), 100, 10), PricePoint(Date(3), 100, -1)>>,
             <<PricePoint(Date(1), 0, 10), PricePoint(Date(2), 100, 10)>>}
        trends ==
            {MarketTrends(h, <<SeasonalityPoint(1, 100), SeasonalityPoint(2, 95)>>, f) :
                 h \in histories, f \in {ForecastValid, ForecastPlaceholder}}
        \* none, a good school, a good school then one rated 11
        schools ==
            {<<>>,
             <<School(Num(9), "elementary", <<1, 2>>, Num(15))>>,
             <<School(Num(9), "elementary", <<1, 2>>, Num(15)),
               School(Num(11), "high", <<1, 2>>, Num(15))>>}
        \* valid; population value 0; education shares adding up to 1.4; a
        \* median income of a sixth of the median price; a median income
        \* that is NaN
        demographics ==
            {DemographicAnalysis(Metric(Num(5000), "increasing"),
                 Metric(Num(1000), "increasing"), Metric(<<5, 10>>, "stable")),
             DemographicAnalysis(Metric(Num(0), "increasing"),
                 Metric(Num(1000), "increasing"), Metric(<<5, 10>>, "stable")),
             DemographicAnalysis(Metric(Num(5000), "increasing"),
                 Metric(Num(1000), "increasing"), Metric(<<9, 10>>, "stable")),
             DemographicAnalysis(Metric(Num(5000), "increasing"),
                 Metric(Num(800), "increasing"), Metric(<<5, 10>>, "stable")),
             DemographicAnalysis(Metric(Num(5000), "increasing"),
                 Metric(NaN, "increasing"), Metric(<<5, 10>>, "stable"))}
        \* pricePerSqft exact, rounded (off by 1/2), off by exactly 1, off by
        \* 5/2; a second listing without square footage
        active ==
            {<<>>,
             <<Listing(2000, <<5, 2>>)>>,
             <<Listing(2000, Num(3))>>,
             <<Listing(2000, <<7, 2>>)>>,
             <<Listing(2000, Num(5))>>,
             <<Listing(2000, <<5, 2>>), Listing(0, Num(0))>>}
        closed ==
            {<<>>, <<Put(Listing(2000, Num(3)), "soldPrice", 4500)>>,
             <<Put(Listing(2000, Num(5)), "soldPrice", 4500)>>}
        \* consistent and inconsistent buyer's and seller's markets, an
        \* absorption rate above 100 in a balanced and in a buyer's market, a
        \* skewed price distribution, 3 days on market, an inventory that
        \* does not add up
        statistics ==
            {BalancedStatistics,
             [monthsOfSupply |-> Num(7), absorptionRate |-> Num(30),
              listToSoldRatio |-> <<94, 100>>, averageDaysOnMarket |-> Num(70)]
                 @@ BalancedStatistics,
             [monthsOfSupply |-> Num(7)] @@ BalancedStatistics,
             [monthsOfSupply |-> Num(2), absorptionRate |-> Num(70),
              listToSoldRatio |-> <<99, 100>>, averageDaysOnMarket |-> Num(20)]
                 @@ BalancedStatistics,
             [absorptionRate |-> Num(150)] @@ BalancedStatistics,
             [monthsOfSupply |-> Num(7), absorptionRate |-> Num(150)]
                 @@ BalancedStatistics,
             [averagePrice |-> Num(8000)] @@ BalancedStatistics,
             [averageDaysOnMarket |-> Num(3)] @@ BalancedStatistics,
             [inventoryLevel |-> Num(30)] @@ BalancedStatistics}
    IN  {[marketTrends |-> t, schoolDistricts |-> s, demographicAnalysis |-> d,
          activeListings |-> a, closedListings |-> c, statistics |-> st] :
             t \in trends, s \in schools, d \in demographics,
             a \in active, c \in closed, st \in statistics}

(***************************************************************************)
(* validateMLSReport as a process: one step per stage.                     *)
(***************************************************************************)
InitValidateReport ==
    /\ report \in Reports
    /\ pc = "marketTrends"
    /\ thrown = Null
    /\ result = Null
    /\ text = EmptyText
    /\ i = 1 /\ currentProperty = EmptyObject /\ properties = <<>>
    /\ maxAttempts = 0 /\ attempt = 0 /\ lastError = Null
    /\ calls = 0 /\ pdfData = Null

\* the k-th stage runs: it throws, or the next stage is up
RunStage(k) ==
    ValidatorStep(Stages[k], Stage(Stages[k], report),
                  IF k < Len(Stages) THEN Stages[k + 1] ELSE "returned")

NextValidateReport == \E k \in DOMAIN Stages : RunStage(k)

SpecValidateReport == InitValidateReport /\ [][NextValidateReport]_vars

(***************************************************************************)
(* utils/mls-validator.ts: the collector-style validateMLSReport.          *)
(*                                                                         *)
(* A key the report lacks reads as undefined.  A stage yields the error    *)
(* strings it pushes, or the TypeError JavaScript raises when a property   *)
(* of undefined or null is read.  A present string, array or object is     *)
(* truthy; a present number is truthy unless it is 0.                      *)
(***************************************************************************)
TypeError == [name |-> "TypeError"]

Pushed(errors) == [thrown |-> Null, errors |-> errors]

Raised == [thrown |-> TypeError, errors |-> <<>>]

\* if (!obj.key) errors.push(message)
Required(obj, key, message) == IF Has(obj, key) THEN <<>> ELSE <<message>>

\* if (data.key <= bound) errors.push(message): undefined <= bound is false
AtMost(data, key, bound, message) ==
    IF Has(data, key) /\ data[key] <= bound THEN <<message>> ELSE <<>>

\* lines 23-44 of validateMLSReport
RequiredFields(data) ==
    Pushed(Required(data, "mlsNumber", "MLS number is required")
        \o (IF TruthyInt(data, "listPrice") THEN <<>>
            ELSE <<"List price is required">>)
        \o Required(data, "propertyType", "Property type is required")
        \o Required(data, "address", "Address is required")
        \o Required(data, "features", "Features are required")
        \o Required(data, "photos", "Photos are required")
        \o (IF Has(data, "address")
            THEN Required(data.address, "street", "Street address is required")
              \o Required(data.address, "city", "City is required")
              \o Required(data.address, "state", "State is required")
              \o Required(data.address, "zipCode", "ZIP code is required")
            ELSE <<>>)
        \o AtMost(data, "bedrooms", 0, "Bedrooms must be greater than 0")
        \o AtMost(data, "bathrooms", 0, "Bathrooms must be greater than 0")
        \o AtMost(data, "squareFeet", 0, "Square feet must be greater than 0")
        \o AtMost(data, "yearBuilt", 1800, "Year built must be after 1800")
        \o AtMost(data, "lotSize", 0, "Lot size must be greater than 0"))

\* !period || typeof period.priceChange !== 'number' || ...
BadForecast(forecast, period, message) ==
    IF Has(forecast, period) /\ isForecastMetric(forecast[period]) THEN <<>>
    ELSE <<message>>

CollectorValidateMarketTrends(trends) ==
    IF trends = Undefined THEN Raised
    ELSE IF ~Has(trends, "priceHistory") THEN
        Pushed(<<"Price history must be an array">>)
    ELSE IF ~Has(trends, "seasonality") THEN
        Pushed(<<"Seasonality data must be an array">>)
    ELSE IF ~Has(trends, "forecast") THEN
        Pushed(<<"Market forecast is required">>)
    ELSE Pushed(BadForecast(trends.forecast, "nextMonth",
                            "Invalid next month forecast data")
             \o BadForecast(trends.forecast, "nextQuarter",
                            "Invalid next quarter forecast data")
             \o BadForecast(trends.forecast, "nextYear",
                            "Invalid next year forecast data"))

requiredFields ==
    <<"averageDaysOnMarket", "medianDaysOnMarket", "totalActiveListings",
      "totalClosedSales", "averagePrice", "medianPrice", "pricePerSquareFoot",
      "inventoryLevel", "daysOfInventory", "absorptionRate", "newListings",
      "closedListings", "pendingListings", "canceledListings", "averageListPrice",
      "medianListPrice", "averageSoldPrice", "medianSoldPrice", "listToSoldRatio",
      "monthsOfSupply">>

RECURSIVE MissingStatisticsFrom(_, _)
MissingStatisticsFrom(stats, k) ==
    IF k > Len(requiredFields) THEN <<>>
    ELSE (IF Has(stats, requiredFields[k]) THEN <<>>
          ELSE <<"Invalid or missing " \o requiredFields[k] \o " in statistics">>)
         \o MissingStatisticsFrom(stats, k + 1)

CollectorValidateStatistics(stats) ==
    IF stats = Undefined THEN Raised ELSE Pushed(MissingStatisticsFrom(stats, 1))

CollectorValidateSchoolDistrict(district) ==
    IF district = Undefined THEN Raised
    ELSE Pushed(Required(district, "name", "School district name is required")
             \o (IF ~Has(district, "rating") \/ district.rating < 0 \/
                    district.rating > 10
                 THEN <<"School district rating must be between 0 and 10">>
                 ELSE <<>>)
             \o (IF Has(district, "schools") /\
                    {"elementary", "middle", "high"} \subseteq DOMAIN district.schools
                 THEN <<>>
                 ELSE <<"School information is incomplete">>))

\* typeof metric === 'object' && 'value' in metric && ...: `in` applied to
\* null raises
CollectorIsDemographicMetric(metric) ==
    metric # Undefined /\ {"value", "trend", "percentChange"} \subseteq DOMAIN metric

RECURSIVE MetricsFrom(_, _, _, _, _)
MetricsFrom(obj, keys, k, prefix, suffix) ==
    IF k > Len(keys) THEN Pushed(<<>>)
    ELSE LET value == Get(obj, keys[k])
             rest == MetricsFrom(obj, keys, k + 1, prefix, suffix)
         IN  IF value = Null \/ rest.thrown # Null THEN Raised
             ELSE IF CollectorIsDemographicMetric(value) THEN rest
             ELSE Pushed(<<prefix \o keys[k] \o suffix>> \o rest.errors)

CollectorValidateDemographicAnalysis(analysis) ==
    IF analysis = Undefined THEN Raised
    ELSE LET metrics == MetricsFrom(analysis,
                 <<"population", "medianAge", "medianIncome", "employmentRate">>,
                 1, "Invalid ", " demographic metric")
         IN  IF metrics.thrown # Null THEN Raised
             ELSE IF ~Has(analysis, "educationLevels") THEN
                 Pushed(metrics.errors \o <<"Education levels are required">>)
             ELSE LET levels == MetricsFrom(analysis.educationLevels,
                          <<"highSchool", "bachelors", "graduate">>,
                          1, "Invalid ", " education level metric")
                  IN  IF levels.thrown # Null THEN Raised
                      ELSE Pushed(metrics.errors \o levels.errors)

\* Reports handed to the collector: for the scalar fields and for each nested
\* object, the complete value, the key missing, and values with parts
\* missing (or null).
CollectorReports ==
    LET scalars ==
            {[mlsNumber |-> "MLS123456", listPrice |-> 5000,
              propertyType |-> "Single Family", features |-> <<"Pool">>,
              photos |-> <<"photo1.jpg">>, bedrooms |-> 4, bathrooms |-> 2,
              squareFeet |-> 2500, yearBuilt |-> 2010, lotSize |-> 1],
             [listPrice |-> 0, bedrooms |-> 0, yearBuilt |-> 1800]}
        addresses ==
            {EmptyObject,
             [address |-> [street |-> "123 Main St", city |-> "Plano",
                           state |-> "TX", zipCode |-> "75024"]],
             [address |-> [street |-> "123 Main St"]]}
        trends ==
            {EmptyObject,
             [marketTrends |-> MarketTrends(<<>>, <<>>, ForecastValid)],
             [marketTrends |-> [seasonality |-> <<>>, forecast |-> ForecastValid]],
             [marketTrends |-> [priceHistory |-> <<>>, seasonality |-> <<>>]],
             [marketTrends |->
                  MarketTrends(<<>>, <<>>,
                               [nextMonth |-> [confidence |-> Num(1)],
                                nextYear |-> ForecastMetric(Num(0), Num(1))])]}
        statistics ==
            {EmptyObject,
             [statistics |-> [f \in StatisticsFields |-> Num(1)]],
             [statistics |->
                  [f \in StatisticsFields \ {"medianPrice", "monthsOfSupply"}
                      |-> Num(1)]]}
        schools ==
            [elementary |-> <<"Wilson Elementary">>,
             middle |-> <<"Rice Middle School">>, high |-> <<"Plano Senior High">>]
        districts ==
            {EmptyObject,
             [schoolDistrict |-> [name |-> "Plano ISD", rating |-> 9,
                                  schools |-> schools]],
             [schoolDistrict |-> [name |-> "Plano ISD", rating |-> 11,
                                  schools |-> schools]],
             [schoolDistrict |-> [rating |-> 9, schools |-> [elementary |-> <<>>]]]}
        complete ==
            DemographicAnalysis(Metric(Num(5000), "increasing"),
                                Metric(Num(1000), "increasing"),
                                Metric(<<5, 10>>, "stable"))
        Without(obj, key) == [k \in DOMAIN obj \ {key} |-> obj[k]]
        \* absent; complete; no population; population null; no
        \* educationLevels; an education level that is null
        demographics ==
            {EmptyObject,
             [demographicAnalysis |-> complete],
             [demographicAnalysis |-> Without(complete, "population")],
             [demographicAnalysis |-> Put(complete, "population", Null)],
             [demographicAnalysis |-> Without(complete, "educationLevels")],
             [demographicAnalysis |->
                  Put(complete, "educationLevels", [highSchool |-> Null])]}
    IN  {s @@ a @@ t @@ st @@ d @@ g :
             s \in scalars, a \in addresses, t \in trends, st \in statistics,
             d \in districts, g \in demographics}

(***************************************************************************)
(* The collector as a process: one step per rule group; `result` is the    *)
(* errors array, returned by the last step.                                *)
(***************************************************************************)
InitCollector ==
    /\ report \in CollectorReports
    /\ pc = "required"
    /\ result = <<>>
    /\ thrown = Null
    /\ text = EmptyText
    /\ i = 1 /\ currentProperty = EmptyObject /\ properties = <<>>
    /\ maxAttempts = 0 /\ attempt = 0 /\ lastError = Null
    /\ calls = 0 /\ pdfData = Null

\* The rule groups of validateMLSReport, in the order of the source.
CollectorStages ==
    <<"required", "marketTrends", "statistics", "schoolDistrict",
      "demographicAnalysis">>

CollectorStage(name, data) ==
    CASE name = "required" -> RequiredFields(data)
      [] name = "marketTrends" ->
             CollectorValidateMarketTrends(Get(data, "marketTrends"))
      [] name = "statistics" -> CollectorValidateStatistics(Get(data, "statistics"))
      [] name = "schoolDistrict" ->
             CollectorValidateSchoolDistrict(Get(data, "schoolDistrict"))
      [] name = "demographicAnalysis" ->
             CollectorValidateDemographicAnalysis(Get(data, "demographicAnalysis"))

\* the k-th rule group pushes its errors, or a TypeError leaves the
\* function; after the last group the array is returned
Collect(k) ==
    /\ pc = CollectorStages[k]
    /\ LET outcome == CollectorStage(CollectorStages[k], report)
       IN  IF outcome.thrown # Null
           THEN thrown' = outcome.thrown /\ result' = result /\ pc' = "threw"
           ELSE /\ thrown' = thrown
                /\ result' = result \o outcome.errors
                /\ pc' = IF k < Len(CollectorStages) THEN CollectorStages[k + 1]
                         ELSE "returned"
    /\ UNCHANGED <<text, extractVars, retryVars, calls, pdfData>>

NextCollector == \E k \in DOMAIN CollectorStages : Collect(k)

SpecCollector == InitCollector /\ [][NextCollector]_vars

(***************************************************************************)
(* The two surfaces on one report.  An MLSReport carries the keys both     *)
(* read (the fixture mockMLSData has them all): the assertion validator    *)
(* runs first and `thrown` keeps its error, the collector second and       *)
(* `result` keeps its outcome.                                             *)
(***************************************************************************)
\* validateMLSReport of the collector: the rule groups from the k-th on
RECURSIVE CollectorStagesFrom(_, _)
CollectorStagesFrom(data, k) ==
    IF k > Len(CollectorStages) THEN Pushed(<<>>)
    ELSE LET outcome == CollectorStage(CollectorStages[k], data)
             rest == CollectorStagesFrom(data, k + 1)
         IN  IF outcome.thrown # Null THEN Raised
             ELSE IF rest.thrown # Null THEN Raised
             ELSE Pushed(outcome.errors \o rest.errors)

\* Every report of the assertion validator's catalogue, completed with the
\* keys the collector reads: the scalar fields and the address of the
\* fixture, the twenty statistics fields, and a school district rated 9 or
\* 11.
SurfaceReports ==
    LET district(rating) ==
            [name |-> "Plano ISD", rating |-> rating,
             schools |-> [elementary |-> <<"Wilson Elementary">>,
                          middle |-> <<"Rice Middle School">>,
                          high |-> <<"Plano Senior High">>]]
        fixture ==
            [mlsNumber |-> "MLS123456", listPrice |-> 5000,
             propertyType |-> "Single Family", features |-> <<"Pool">>,
             photos |-> <<"photo1.jpg">>, bedrooms |-> 4, bathrooms |-> 2,
             squareFeet |-> 2500, yearBuilt |-> 2010, lotSize |-> 1,
             address |-> [street |-> "123 Main St", city |-> "Plano",
                          state |-> "TX", zipCode |-> "75024"]]
    IN  {[statistics |-> r.statistics @@ [f \in StatisticsFields |-> Num(1)],
          schoolDistrict |-> district(rating)] @@ r @@ fixture :
             r \in Reports, rating \in {9, 11}}

InitSurfaces ==
    /\ report \in SurfaceReports
    /\ pc = "assertion"
    /\ thrown = Null
    /\ result = Null
    /\ text = EmptyText
    /\ i = 1 /\ currentProperty = EmptyObject /\ properties = <<>>
    /\ maxAttempts = 0 /\ attempt = 0 /\ lastError = Null
    /\ calls = 0 /\ pdfData = Null

\* try { validateMLSReport(report) } catch (error) { thrown = error }
RunAssertion ==
    /\ pc = "assertion"
    /\ LET outcome == validateMLSReport(report)
       IN  thrown' = IF Threw(outcome) THEN outcome ELSE Null
    /\ pc' = "collector"
    /\ UNCHANGED <<text, extractVars, retryVars, calls, pdfData, result>>

\* result = validateMLSReport(report), the collector
RunCollector ==
    /\ pc = "collector"
    /\ result' = CollectorStagesFrom(report, 1)
    /\ pc' = "compared"
    /\ UNCHANGED <<text, extractVars, retryVars, calls, pdfData, thrown>>

NextSurfaces == RunAssertion \/ RunCollector

SpecSurfaces == InitSurfaces /\ [][NextSurfaces]_vars

(***************************************************************************)
(* The exported rule groups of the assertion validator called on their     *)
(* own: `pc` names the function about to run, `report` is its argument.    *)
(***************************************************************************)
RuleNames == {"validateMarketConditions", "validateSchoolInfo"}

Rule(name, value) ==
    CASE name = "validateMarketConditions" -> validateMarketConditions(value)
      [] name = "validateSchoolInfo" -> validateSchoolInfo(value)

\* Arguments around every bound of the rules: for the market conditions,
\* reports whose statistics take every combination of the values listed
\* (the other fields from a consistent report, the inventory adding up or
\* not); for a school, every combination of ratings, types, distances
\* (10.01 among them) and student-teacher ratios, and a school without
\* enrollment.
RuleInputs(name) ==
    CASE name = "validateMarketConditions" ->
             {[statistics |->
                   [monthsOfSupply |-> Num(months), absorptionRate |-> Num(rate),
                    listToSoldRatio |-> <<ratio, 100>>,
                    averageDaysOnMarket |-> Num(days),
                    inventoryLevel |-> Num(level)] @@ BalancedStatistics] :
                  months \in {2, 3, 4, 6, 7}, rate \in {30, 40, 41, 59, 60, 70},
                  ratio \in {94, 95, 96, 97, 98, 99},
                  days \in {20, 30, 31, 59, 60, 70}, level \in {12, 30}}
      [] name = "validateSchoolInfo" ->
             {School(rating, type, distance, studentTeacherRatio) :
                  rating \in {Num(-1), Num(0), Num(10), Num(11)},
                  type \in SchoolTypes \cup {"charter"},
                  distance \in {<<-1, 100>>, Num(0), Num(10), <<1001, 100>>},
                  studentTeacherRatio \in {Num(9), Num(10), Num(30), Num(31)}}
             \cup {[name |-> "Wilson", rating |-> Num(9), type |-> "high",
                    distance |-> Num(1), studentTeacherRatio |-> Num(15)]}

InitRules ==
    /\ pc \in RuleNames
    /\ report \in RuleInputs(pc)
    /\ thrown = Null
    /\ result = Null
    /\ text = EmptyText
    /\ i = 1 /\ currentProperty = EmptyObject /\ properties = <<>>
    /\ maxAttempts = 0 /\ attempt = 0 /\ lastError = Null
    /\ calls = 0 /\ pdfData = Null

\* the function runs: it throws or returns
ApplyRule(name) == ValidatorStep(name, Rule(name, report), "returned")

NextRules == \E name \in RuleNames : ApplyRule(name)

SpecRules == InitRules /\ [][NextRules]_vars

(***************************************************************************)
(* components/PDFUpload.tsx: the market forecast engine.                   *)
(*                                                                         *)
(* Its numbers are signed: a pair <<n, d>> with d >= 0 in lowest terms,    *)
(* <<-1, 0>> being -Infinity.  A trend strength, which comes out of        *)
(* Math.sqrt, is kept as [squared |-> q]: the number >= 0 whose square is  *)
(* q (0, Infinity and NaN being their own squares).                        *)
(***************************************************************************)
RECURSIVE Gcd(_, _)
Gcd(a, b) == IF b = 0 THEN a ELSE Gcd(b, a % b)

\* the number n / d
Ratio(n, d) ==
    IF d = 0 THEN <<(IF n > 0 THEN 1 ELSE IF n < 0 THEN -1 ELSE 0), 0>>
    ELSE LET g == Gcd(Abs(n), Abs(d))
         IN  IF d < 0 THEN <<(-n) \div g, (-d) \div g>> ELSE <<n \div g, d \div g>>

\* x * y: 0 * Infinity is NaN
Times(x, y) == Ratio(x[1] * y[1], x[2] * y[2])

\* x / y: a zero divisor gives Infinity, -Infinity or NaN
Over(x, y) == IF y[1] < 0 THEN Times(x, <<-y[2], -y[1]>>) ELSE Times(x, <<y[2], y[1]>>)

\* x - y: Infinity - Infinity is NaN
Minus(x, y) ==
    IF ~IsFinite(x) /\ ~IsFinite(y) THEN (IF x = NaN \/ y = NaN \/ x = y THEN NaN ELSE x)
    ELSE Ratio(x[1] * y[2] - y[1] * x[2], x[2] * y[2])

\* Math.max(0, x)
MaxZero(x) == IF x = NaN THEN NaN ELSE IF x[1] > 0 THEN x ELSE Num(0)

\* Math.abs(x) / Math.sqrt(y) for y >= 0
AbsOverSqrt(x, y) == [squared |-> Over(Times(x, x), y)]

\* the value of a strength whose square is a square of a fraction
SquareRoot(q) ==
    LET Root(n) == CHOOSE r \in 0..n : r * r = n
    IN  IF IsFinite(q) THEN <<Root(q[1]), Root(q[2])>> ELSE q

\* priceChanges: 0 for the first point, then the percentage change from the
\* previous point
priceChanges(recentPrices) ==
    [k \in DOMAIN recentPrices |->
         IF k = 1 THEN Num(0)
         ELSE Times(Over(Num(recentPrices[k].price - recentPrices[k - 1].price),
                         Num(recentPrices[k - 1].price)),
                    Num(100))]

\* xs.reduce((a, b) => a + b, 0), from the k-th element on
RECURSIVE SumFrom(_, _)
SumFrom(xs, k) ==
    IF k > Len(xs) THEN Num(0)
    ELSE Minus(xs[k], Minus(Num(0), SumFrom(xs, k + 1)))

calculateTrendStrength(recentPrices) ==
    IF Len(recentPrices) < 2
    THEN [strength |-> [squared |-> Num(0)], direction |-> "stable"]
    ELSE LET changes == priceChanges(recentPrices)
             avgChange == Over(SumFrom(changes, 1), Num(Len(changes) - 1))
             squares == [k \in DOMAIN changes |->
                             Times(Minus(changes[k], avgChange),
                                   Minus(changes[k], avgChange))]
             variance == Over(SumFrom(squares, 1), Num(Len(changes)))
         IN  [strength |-> AbsOverSqrt(avgChange, variance),
              direction |-> IF avgChange[1] > 0 THEN "increasing"
                            ELSE IF avgChange[1] < 0 THEN "decreasing"
                            ELSE "stable"]

\* x + y
Plus(x, y) == Minus(x, Minus(Num(0), y))

\* new Date(date).getMonth() of a YYYY-MM date, January being 0 (the
\* environment's time zone is UTC)
getMonth(date) == ParseInt(SubSeq(date, 6, 7)) - 1

\* An entry of the seasonality pattern is null or [number |-> x].
\* such an entry used as a condition
Truthy(entry) == entry # Null /\ entry.number[1] # 0

\* such an entry used as an operand: null counts as 0
ToNumber(entry) == IF entry = Null THEN Num(0) ELSE entry.number

\* the months argument marketPredictions passes
Horizon == 3

\* generatePredictions; seasonality[m + 1] is the entry of month m, and the
\* date of a prediction is its year and its month from 1
generatePredictions(history, shortMA, longMA, trend, seasonality, months) ==
    LET lastPrice == Num(history[Len(history)].price)
        lastDate == history[Len(history)].date
        strength == SquareRoot(trend.strength.squared)
        Prediction(k) ==
            LET ahead == getMonth(lastDate) + k + 1
                month == ahead % 12
                seasonalFactor ==
                    IF Truthy(seasonality[month + 1])
                    THEN Over(seasonality[month + 1].number,
                              ToNumber(seasonality[getMonth(lastDate) + 1]))
                    ELSE Num(1)
                drift == Times(Times(<<1, 100>>, strength), Num(k + 1))
                trendFactor ==
                    IF trend.direction = "stable" THEN Num(1)
                    ELSE IF trend.direction = "increasing" THEN Plus(Num(1), drift)
                    ELSE Minus(Num(1), drift)
                maFactor ==
                    IF Len(shortMA) # 0 /\ Len(longMA) # 0
                    THEN Over(shortMA[Len(shortMA)].price, longMA[Len(longMA)].price)
                    ELSE Num(1)
            IN  [date |-> <<ParseInt(SubSeq(lastDate, 1, 4)) + ahead \div 12, month + 1>>,
                 price |-> Times(Times(Times(lastPrice, trendFactor), seasonalFactor),
                                 maFactor),
                 confidence |->
                     MaxZero(Minus(Minus(Num(1), Times(<<1, 10>>, Num(k + 1))),
                                   Times(<<1, 10>>, Over(Num(1), strength))))]
    IN  [k \in 1..months |-> Prediction(k - 1)]

\* calculateMovingAverage with the guard index < period: the window is
\* taken to be filled one point later than it is
calculateMovingAverageLate(prices, period) ==
    LET mapped ==
            [k \in DOMAIN prices |->
                 LET index == k - 1
                     slice == [j \in 1..period |-> Num(prices[index - period + 1 + j].price)]
                 IN  IF index < period THEN Null
                     ELSE [date |-> prices[k].date,
                           price |-> Over(SumFrom(slice, 1), Num(period))]]
    IN  SelectSeq(mapped, LAMBDA entry : entry # Null)

\* calculateMovingAverage: the map over the 0-based index, then the filter
\* that drops the nulls
calculateMovingAverage(prices, period) ==
    LET mapped ==
            [k \in DOMAIN prices |->
                 LET index == k - 1
                     \* array.slice(index - period + 1, index + 1)
                     slice == [j \in 1..period |-> Num(prices[index - period + 1 + j].price)]
                 IN  IF index < period - 1 THEN Null
                     ELSE [date |-> prices[k].date,
                           price |-> Over(SumFrom(slice, 1), Num(period))]]
    IN  SelectSeq(mapped, LAMBDA entry : entry # Null)

\* the windows marketPredictions passes
ShortWindow == 3

LongWindow == 6

\* analyzeSeasonality: per calendar month the mean of the averagePrice of
\* its entries, null for a month without entries
analyzeSeasonality(seasonality) ==
    [m \in 1..12 |->
         LET ofMonth == SelectSeq(seasonality, LAMBDA data : data.month = m)
         IN  IF Len(ofMonth) # 0
             THEN [number |->
                       Over(SumFrom([k \in DOMAIN ofMonth |-> Num(ofMonth[k].averagePrice)], 1),
                            Num(Len(ofMonth)))]
             ELSE Null]

\* new Date(date).getTime() of a YYYY-MM date, in months
getTime(date) == ParseInt(SubSeq(date, 1, 4)) * 12 + getMonth(date)

\* [...priceHistory].sort((a, b) => time(a) - time(b)): a stable sort
RECURSIVE sortByDate(_)
sortByDate(history) ==
    IF history = <<>> THEN <<>>
    ELSE LET rest == sortByDate(Tail(history))
             first == Head(history)
             before == SelectSeq(rest, LAMBDA p : getTime(p.date) < getTime(first.date))
             after == SelectSeq(rest, LAMBDA p : getTime(p.date) >= getTime(first.date))
         IN  before \o <<first>> \o after

\* the marketPredictions memo of the component
marketPredictions(data) ==
    IF Len(data.marketTrends.priceHistory) = 0 THEN Null
    ELSE LET sortedHistory == sortByDate(data.marketTrends.priceHistory)
             shortTermMA == calculateMovingAverage(sortedHistory, ShortWindow)
             longTermMA == calculateMovingAverage(sortedHistory, LongWindow)
             recent == SubSeq(sortedHistory,
                              IF Len(sortedHistory) > 6 THEN Len(sortedHistory) - 5 ELSE 1,
                              Len(sortedHistory))
             recentTrend == calculateTrendStrength(recent)
             seasonalityPattern == analyzeSeasonality(data.marketTrends.seasonality)
         IN  [shortTermMA |-> shortTermMA,
              longTermMA |-> longTermMA,
              recentTrend |-> recentTrend,
              seasonalityPattern |-> seasonalityPattern,
              predictions |-> generatePredictions(sortedHistory, shortTermMA,
                                  longTermMA, recentTrend, seasonalityPattern, Horizon)]

(***************************************************************************)
(* The helpers of the forecast engine called on their own: `pc` names the  *)
(* function about to run, `report` holds its arguments and `result` its    *)
(* return value.                                                           *)
(***************************************************************************)
MaxRecent == 3

\* longest history handed to calculateMovingAverage and to marketPredictions
MaxPoints == 7

\* For calculateTrendStrength every sequence of up to MaxRecent monthly
\* points with prices 100, 125 or 200.  For generatePredictions a history
\* ending at 500 in March or in February; a trend of strength 0 (stable or
\* increasing), 2 (increasing), 1/2 (decreasing) or NaN; no seasonality, a
\* seasonality for January to June, one for April and May only; no moving
\* average or one entry, for either window.  For calculateMovingAverage
\* every history of up to MaxPoints monthly points with those prices, and
\* the two windows.  For marketPredictions the histories whose trend
\* strength has an exact square root: none, and every history of up to
\* MaxPoints points of one price, in chronological order or reversed; no
\* seasonality or one of two months.
ForecastInputs(name) ==
    CASE name = "calculateTrendStrength" ->
             {[recentPrices |->
                   [k \in DOMAIN prices |-> PricePoint(Date(k), prices[k], 10)]] :
                  prices \in UNION {[1..n -> {100, 125, 200}] : n \in 0..MaxRecent}}
      [] name = "generatePredictions" ->
             LET months(values) ==
                     [m \in 1..12 |->
                          IF m \in DOMAIN values /\ values[m] # 0
                          THEN [number |-> Num(values[m])] ELSE Null]
             IN  {[history |-> history, shortMA |-> shortMA, longMA |-> longMA,
                   trend |-> [strength |-> [squared |-> strength[1]],
                             direction |-> strength[2]],
                   seasonality |-> seasonality, months |-> Horizon] :
                      history \in {<<PricePoint(Date(3), 500, 10)>>,
                                   <<PricePoint(Date(1), 400, 10),
                                     PricePoint(Date(2), 500, 10)>>},
                      shortMA \in {<<>>, <<[date |-> Date(3), price |-> Num(480)]>>},
                      longMA \in {<<>>, <<[date |-> Date(3), price |-> Num(450)]>>},
                      strength \in {<<Num(0), "stable">>, <<Num(0), "increasing">>,
                                    <<Num(4), "increasing">>, <<<<1, 4>>, "decreasing">>,
                                    <<NaN, "stable">>},
                      seasonality \in
                          {months(<<>>),
                           months(<<100, 95, 110, 105, 100, 100>>),
                           months(<<0, 0, 0, 105, 100>>)}}
      [] name = "calculateMovingAverage" ->
             {[prices |-> [k \in DOMAIN prices |-> PricePoint(Date(k), prices[k], 10)],
               period |-> period] :
                  prices \in UNION {[1..n -> {100, 125, 200}] : n \in 0..MaxPoints},
                  period \in {ShortWindow, LongWindow}}
      [] name = "marketPredictions" ->
             {[marketTrends |-> [priceHistory |-> history, seasonality |-> seasonality]] :
                  history \in UNION {{[k \in 1..n |-> PricePoint(Date(k), 500, 10)],
                                      [k \in 1..n |-> PricePoint(Date(n + 1 - k), 500, 10)]} :
                                         n \in 0..MaxPoints},
                  seasonality \in {<<>>, <<SeasonalityPoint(1, 100),
                                           SeasonalityPoint(2, 95)>>}}

InitForecast ==
    /\ pc \in {"calculateTrendStrength", "generatePredictions",
              "calculateMovingAverage", "marketPredictions"}
    /\ report \in ForecastInputs(pc)
    /\ thrown = Null
    /\ result = Null
    /\ text = EmptyText
    /\ i = 1 /\ currentProperty = EmptyObject /\ properties = <<>>
    /\ maxAttempts = 0 /\ attempt = 0 /\ lastError = Null
    /\ calls = 0 /\ pdfData = Null

\* result = calculateTrendStrength(recentPrices)
TrendStrength ==
    /\ pc = "calculateTrendStrength"
    /\ result' = calculateTrendStrength(report.recentPrices)
    /\ pc' = "returned"
    /\ UNCHANGED <<text, extractVars, retryVars, calls, pdfData, thrown>>

\* result = generatePredictions(history, shortMA, longMA, trend, seasonality, months)
Predict ==
    /\ pc = "generatePredictions"
    /\ result' = generatePredictions(report.history, report.shortMA, report.longMA,
                                     report.trend, report.seasonality, report.months)
    /\ pc' = "returned"
    /\ UNCHANGED <<text, extractVars, retryVars, calls, pdfData, thrown>>

\* result = calculateMovingAverage(prices, period)
MovingAverage ==
    /\ pc = "calculateMovingAverage"
    /\ result' = calculateMovingAverage(report.prices, report.period)
    /\ pc' = "returned"
    /\ UNCHANGED <<text, extractVars, retryVars, calls, pdfData, thrown>>

\* the memo is evaluated for the data of the component
MarketPredictions ==
    /\ pc = "marketPredictions"
    /\ result' = marketPredictions(report)
    /\ pc' = "returned"
    /\ UNCHANGED <<text, extractVars, retryVars, calls, pdfData, thrown>>

NextForecast == TrendStrength \/ Predict \/ MovingAverage \/ MarketPredictions

SpecForecast == InitForecast /\ [][NextForecast]_vars

(***************************************************************************)
(* The extracted report handed to the assertion validator, as the          *)
(* analysis component does on mount: extractMLSData(text), then            *)
(* validateMLSReport(data).  `text` is the extractor's input, `report` its *)
(* return value with the placeholder sections, `thrown` what the validator *)
(* throws.                                                                 *)
(***************************************************************************)
MetricPlaceholder == [value |-> Num(0), trend |-> "stable", percentChange |-> Num(0)]

\* the whole object extractMLSData returns: the listings and statistics
\* with the placeholder market trends, school districts and demographics
ExtractedReport(lines) ==
    extractMLSData(lines) @@
    [marketTrends |-> MarketTrends(<<>>, <<>>, ForecastPlaceholder),
     schoolDistricts |-> <<>>,
     demographicAnalysis |->
         [population |-> MetricPlaceholder,
          medianAge |-> MetricPlaceholder,
          medianIncome |-> MetricPlaceholder,
          employmentRate |-> MetricPlaceholder,
          educationLevels |->
              [highSchool |-> MetricPlaceholder,
               bachelors |-> MetricPlaceholder,
               graduate |-> MetricPlaceholder]]]

InitPipeline ==
    /\ text \in Texts
    /\ pc = "extractMLSData"
    /\ report = NoReport
    /\ thrown = Null
    /\ result = Null
    /\ i = 1 /\ currentProperty = EmptyObject /\ properties = <<>>
    /\ maxAttempts = 0 /\ attempt = 0 /\ lastError = Null
    /\ calls = 0 /\ pdfData = Null

\* data = extractMLSData(text)
ExtractReport ==
    /\ pc = "extractMLSData"
    /\ report' = ExtractedReport(text)
    /\ pc' = "validateMLSReport"
    /\ UNCHANGED <<text, i, currentProperty, properties, retryVars, calls,
                   pdfVars, result>>

\* try { validateMLSReport(data) } catch (err) { ... }
ValidateReport ==
    /\ pc = "validateMLSReport"
    /\ LET outcome == validateMLSReport(report)
       IN  /\ thrown' = IF Threw(outcome) THEN outcome ELSE Null
           /\ pc' = IF Threw(outcome) THEN "threw" ELSE "returned"
    /\ UNCHANGED <<text, extractVars, retryVars, calls, pdfData, result>>

NextPipeline == ExtractReport \/ ValidateReport

SpecPipeline == InitPipeline /\ [][NextPipeline]_vars

(***************************************************************************)
(* The statistics extractMLSData synthesizes from the numbers of active    *)
(* and closed listings, for documents of many listings: `report` holds the *)
(* two counts and `result` the statistics.                                 *)
(***************************************************************************)
MaxListings == 56

\* up to MaxListings active listings, with no closed listing or with three
InitStatistics ==
    /\ report \in {[activeListings |-> nActive, closedListings |-> nClosed] :
                       nActive \in 0..MaxListings, nClosed \in {0, 3}}
    /\ pc = "statistics"
    /\ thrown = Null
    /\ result = Null
    /\ text = EmptyText
    /\ i = 1 /\ currentProperty = EmptyObject /\ properties = <<>>
    /\ maxAttempts = 0 /\ attempt = 0 /\ lastError = Null
    /\ calls = 0 /\ pdfData = Null

\* statistics: { totalActiveListings: activeListings.length, ... }
SynthesizeStatistics ==
    /\ pc = "statistics"
    /\ result' = CountStatistics(report.activeListings, report.closedListings)
    /\ pc' = "returned"
    /\ UNCHANGED <<text, extractVars, retryVars, calls, pdfData, thrown>>

SpecStatistics == InitStatistics /\ [][SynthesizeStatistics]_vars

(***************************************************************************)
(* components/PropertyAnalysis: point selection and comparison mode.       *)
(*                                                                         *)
(* `report` is data.marketTrends.priceHistory, `result` the state of the   *)
(* component (comparisonMode, comparisonPoints, selectedPoint,             *)
(* showCalculator, error), `pc` the last event handled and `thrown` what   *)
(* the last handler threw.  An exception inside a state updater leaves the *)
(* component unmounted.                                                    *)
(***************************************************************************)
\* the updater of comparisonPoints without its test for a point of the
\* same date
addComparisonPointAlways(prev, point) ==
    [thrown |-> Null,
     points |-> IF Len(prev) >= 2 THEN prev ELSE Append(prev, point)]

\* prev => { if (prev.length >= 2) return prev;
\*           if (prev.find(p => p.date === point.date))
\*             return prev.filter(p => p.date !== point.date);
\*           return [...prev, point]; }
\* the callback of find reads p.date and point.date, so it throws a
\* TypeError when it runs with p or point undefined; `points` is the value
\* returned and `thrown` the exception
addComparisonPoint(prev, point) ==
    IF Len(prev) >= 2 THEN [thrown |-> Null, points |-> prev]
    ELSE IF prev # <<>> /\ (point = Undefined \/ prev[1] = Undefined)
    THEN [thrown |-> TypeError, points |-> prev]
    ELSE IF \E k \in DOMAIN prev : prev[k].date = point.date
    THEN [thrown |-> Null, points |-> SelectSeq(prev, LAMBDA p : p.date # point.date)]
    ELSE [thrown |-> Null, points |-> Append(prev, point)]

\* the point a click or the Enter key hands to handlePointSelect:
\* priceHistory[index], which is undefined when the history is empty
Selectable == IF report = <<>> THEN {Undefined} ELSE {report[k] : k \in DOMAIN report}

\* no history; four months, two of the points sharing the date 2024-02
InitAnalysis ==
    /\ report \in {<<>>,
                   <<PricePoint(Date(1), 100, 10), PricePoint(Date(2), 115, 10),
                     PricePoint(Date(2), 116, 10), PricePoint(Date(3), 116, 10)>>}
    /\ result = [comparisonMode |-> FALSE, comparisonPoints |-> <<>>,
                 selectedPoint |-> Null, showCalculator |-> FALSE, error |-> Null]
    /\ pc = "mounted"
    /\ thrown = Null
    /\ text = EmptyText
    /\ i = 1 /\ currentProperty = EmptyObject /\ properties = <<>>
    /\ maxAttempts = 0 /\ attempt = 0 /\ lastError = Null
    /\ calls = 0 /\ pdfData = Null

AnalysisUnchanged ==
    UNCHANGED <<text, i, currentProperty, properties, report, retryVars, calls, pdfData>>

\* setComparisonMode(prev => !prev); setComparisonPoints([])
handleComparisonToggle ==
    /\ pc # "unmounted"
    /\ result' = [result EXCEPT !.comparisonMode = ~result.comparisonMode,
                                !.comparisonPoints = <<>>]
    /\ thrown' = Null
    /\ pc' = "handleComparisonToggle"
    /\ AnalysisUnchanged

\* handlePointSelect(point)
handlePointSelect ==
    /\ pc # "unmounted"
    /\ \E point \in Selectable :
          IF ~result.comparisonMode
          THEN \* setSelectedPoint(point); handlePriceClick(point.price)
               IF point = Undefined
               THEN /\ result' = [result EXCEPT !.selectedPoint = point]
                    /\ thrown' = TypeError
                    /\ pc' = "handlePointSelect"
               ELSE /\ \E resolved \in BOOLEAN :
                          result' = [result EXCEPT
                                        !.selectedPoint = point,
                                        !.showCalculator = resolved,
                                        !.error = IF resolved THEN Null
                                                  ELSE [message |->
                                                      "Failed to calculate payment. Please try again."]]
                    /\ thrown' = Null
                    /\ pc' = "handlePointSelect"
          ELSE LET next == addComparisonPoint(result.comparisonPoints, point)
               IN  IF next.thrown # Null
                   THEN /\ thrown' = next.thrown
                        /\ pc' = "unmounted"
                        /\ result' = result
                   ELSE /\ result' = [result EXCEPT !.comparisonPoints = next.points]
                        /\ thrown' = Null
                        /\ pc' = "handlePointSelect"
    /\ AnalysisUnchanged

\* if (e.key === 'Escape' && comparisonMode) { setComparisonMode(false);
\*                                              setComparisonPoints([]); }
Escape ==
    /\ pc # "unmounted"
    /\ result.comparisonMode
    /\ result' = [result EXCEPT !.comparisonMode = FALSE, !.comparisonPoints = <<>>]
    /\ thrown' = Null
    /\ pc' = "Escape"
    /\ AnalysisUnchanged

NextAnalysis == handleComparisonToggle \/ handlePointSelect \/ Escape

SpecAnalysis == InitAnalysis /\ [][NextAnalysis]_vars

(***************************************************************************)
(* Properties of the PDF pipeline (SpecRetry, SpecProcessPDF).             *)
(***************************************************************************)
\* C5 (safety part): the Extractor is invoked at most maxAttempts times; a
\* returned report has at least one listing, is the Extractor's report for
\* the text and came from the last invocation (every earlier one failed);
\* null is returned, for a text that passes the content sniff, after exactly
\* maxAttempts invocations; the value returned is a report or null, never
\* an error.
C5_RetrySafety ==
    /\ calls <= maxAttempts
    /\ attempt <= calls
    /\ pc = "returned" =>
          /\ result # Null =>
                /\ HasListings(result)
                /\ result = extractMLSData(text)
                /\ calls = attempt + 1
          /\ result = Null /\ validatePDFContent(text) =>
                /\ calls = maxAttempts
                /\ attempt = maxAttempts
          /\ result = Null \/ Has(result, "activeListings")

\* C5: retryProcessing is a bounded loop (C5_RetrySafety at every step) and
\* always terminates.
C5_BoundedRetry == [](C5_RetrySafety) /\ <>(pc = "returned")

\* C5 witness: every one of the maxAttempts = 3 attempts failed, one of them
\* by throwing, and null was returned.
C5_Witness ==
    /\ pc = "returned"
    /\ result = Null
    /\ maxAttempts = 3
    /\ calls = 3
    /\ lastError # Null

\* C6: when validatePDFContent(text) is false, retryProcessing returns null
\* without invoking the Extractor, whatever maxAttempts is.
C6_SniffShortCircuits ==
    ~validatePDFContent(text) =>
        /\ calls = 0
        /\ pc \in {"retry", "returned"}
        /\ pc = "returned" => result = Null

\* C6 witness: a text without indicators returned null with maxAttempts = 3.
C6_Witness ==
    /\ pc = "returned"
    /\ ~validatePDFContent(text)
    /\ maxAttempts = 3
    /\ result = Null

Range(s) == {s[k] : k \in DOMAIN s}

Count(s, x) == Cardinality({k \in DOMAIN s : s[k] = x})

\* b is a subsequence of s: its elements occur in s in the same order
IsSubsequence(b, s) ==
    \E f \in [DOMAIN b -> DOMAIN s] :
        /\ \A j \in DOMAIN b : b[j] = s[f[j]]
        /\ \A j, k \in DOMAIN b : j < k => f[j] < f[k]

\* C1: every flushed property is in exactly one of activeListings and
\* closedListings, and it is in closedListings if and only if its soldPrice
\* is defined (a sold-price line was bound to it, whatever the value).
C1_PartitionBySoldPriceDefined ==
    pc = "done" =>
        /\ \A p \in Range(properties) :
              /\ (p \in Range(report.closedListings)) <=> Has(p, "soldPrice")
              /\ Count(report.activeListings, p) + Count(report.closedListings, p)
                     = Count(properties, p)
              /\ ~(p \in Range(report.activeListings)
                     /\ p \in Range(report.closedListings))
        /\ Range(report.activeListings) \cup Range(report.closedListings)
               \subseteq Range(properties)

\* Positions of the MLS-number lines among text[1..upTo], in text order.
MLSPositions(upTo) ==
    SelectSeq([k \in 1..upTo |-> k], LAMBDA k : Recognizer(text[k]) = "mls")

\* The listing the k-th MLS-number line opens, built from the lines of its
\* block alone: those after it and before the next MLS-number line (or
\* before position `stop` for the last one).
BlockListing(pos, k, stop) ==
    LET first == pos[k] + 1
        last == IF k < Len(pos) THEN pos[k + 1] - 1 ELSE stop
        block == [j \in 1..(last - first + 1) |-> text[first + j - 1]]
    IN  ScanFrom(block, 1, NewProperty(text[pos[k]].mlsMatch), <<>>).cur

\* C2: the scan keeps one accumulator; every MLS-number line flushes the
\* pending one and starts a new one, and the last one is flushed after the
\* final line.  So at every point of the scan the flushed properties plus
\* the pending accumulator are exactly the blocks opened by the MLS-number
\* lines read so far, each built from the field lines of its own block only;
\* on return the two buckets together hold one listing per MLS-number line,
\* each bucket in text order.
C2_OneListingPerMLSLine ==
    LET pos == MLSPositions(IF pc = "scan" THEN i - 1 ELSE Len(text))
        all == IF pc = "scan" /\ Pending(currentProperty)
               THEN Append(properties, currentProperty) ELSE properties
    IN  /\ Len(all) = Len(pos)
        /\ \A k \in DOMAIN pos :
              all[k] = BlockListing(pos, k, IF pc = "scan" THEN i - 1 ELSE Len(text))
        /\ pc = "scan" /\ i > 1 /\ Recognizer(text[i - 1]) = "mls"
              => currentProperty = NewProperty(text[i - 1].mlsMatch)
        /\ pc = "done" =>
              /\ Len(report.activeListings) + Len(report.closedListings) = Len(pos)
              /\ IsSubsequence(report.activeListings, properties)
              /\ IsSubsequence(report.closedListings, properties)

\* C2 witness: two MLS-number lines with a field line bound to the first
\* block, both listings returned.
C2_Witness ==
    /\ pc = "done"
    /\ Len(properties) = 2
    /\ properties[1].listPrice # 0
    /\ properties[2].listPrice = 0

\* C8: statistics synthesis never divides by zero: every statistics field of
\* the returned report is a finite number.
C8_StatisticsFinite ==
    pc = "done" => \A f \in StatisticsFields : IsFinite(report.statistics[f])

\* x = y as numbers (cross-multiplied when both are finite)
EqNum(x, y) ==
    IF IsFinite(x) /\ IsFinite(y) THEN x[1] * y[2] = y[1] * x[2] ELSE x = y /\ x # NaN

C3_CollectorNeverThrows == pc # "threw" /\ thrown = Null

\* months since year 0 of a YYYY-MM date
MonthNumber(date) == 12 * ParseInt(SubSeq(date, 1, 4)) + ParseInt(SubSeq(date, 6, 7))

\* a point rule fails: format, price or volume
PointRuleFails(point) ==
    ~dateRegex(point.date) \/ point.price <= 0 \/ point.volume < 0

\* the point at 0-based index k, k > 0, is not strictly later than its
\* predecessor
OutOfOrder(h, k) == MonthNumber(h[k + 1].date) <= MonthNumber(h[k].date)

\* the price at index k differs from its predecessor's by more than 15%
Jump(h, k) == 100 * Abs(h[k + 1].price - h[k].price) > 15 * h[k].price

\* some price-history rule fails at 0-based index k
RuleFails(h, k) ==
    \/ PointRuleFails(h[k + 1])
    \/ /\ k > 0
       /\ ~PointRuleFails(h[k])
       /\ (OutOfOrder(h, k) \/ Jump(h, k))

FailingIndexes(h) == {k \in 0..(Len(h) - 1) : RuleFails(h, k)}

Lowest(S) == CHOOSE k \in S : \A j \in S : k <= j

\* C4: once validateMarketTrends is past its price-history loop, either no
\* price-history rule fails at any index and no price-history error was
\* thrown, or a ValidationError was thrown whose field is
\* priceHistory[i].<attribute> for the lowest failing index i, the attribute
\* being date when the chronology rule fails at i and price when only the
\* volatility rule does.
C4_FieldNamesLowestFailingIndex ==
    (pc \notin {"structure", "priceHistory"} /\ isMarketTrends(report)) =>
        LET h == report.priceHistory
            bad == FailingIndexes(h)
        IN  IF bad = {} THEN
                pc = "threw" => thrown.field[1] \in {"seasonality", "forecast"}
            ELSE
                /\ pc = "threw"
                /\ Len(thrown.field) = 3
                /\ thrown.field[1] = "priceHistory"
                /\ thrown.field[2] = ToString(Lowest(bad))
                /\ thrown.field[3] =
                       IF ~dateRegex(h[Lowest(bad) + 1].date) THEN "date"
                       ELSE IF h[Lowest(bad) + 1].price <= 0 THEN "price"
                       ELSE IF h[Lowest(bad) + 1].volume < 0 THEN "volume"
                       ELSE IF OutOfOrder(h, Lowest(bad)) THEN "date"
                       ELSE "price"

\* pricePerSqft = listPrice / sqft within 1
WithinOne(listing) ==
    /\ listing.sqft > 0
    /\ IsFinite(listing.pricePerSqft)
    /\ Abs(listing.listPrice * listing.pricePerSqft[2]
           - listing.pricePerSqft[1] * listing.sqft)
         <= listing.sqft * listing.pricePerSqft[2]

\* strictly chronological with at most 15% change from month to month
SteadyHistory(h) ==
    \A k \in 1..(Len(h) - 1) :
        /\ dateRegex(h[k].date) /\ dateRegex(h[k + 1].date)
        /\ h[k].price > 0
        /\ ~OutOfOrder(h, k)
        /\ ~Jump(h, k)

C10_Premise ==
    /\ \A listing \in Range(report.activeListings \o report.closedListings) :
           WithinOne(listing)
    /\ SteadyHistory(report.marketTrends.priceHistory)

C11_ConfidenceDecays ==
    pc = "returned" =>
        /\ Ge(report.forecast.nextMonth.confidence,
              report.forecast.nextQuarter.confidence)
        /\ Ge(report.forecast.nextQuarter.confidence,
              report.forecast.nextYear.confidence)

\* C12: the two surfaces accept the same reports: once both have run on a
\* report, the assertion validator has thrown if and only if the collector
\* has returned a non-empty error list.
C12_SurfacesAgree ==
    pc = "compared" =>
        ((thrown # Null) <=> (result.thrown = Null /\ result.errors # <<>>))

\* the statistics name a consistent buyer's market
BuyersSignals(statistics) ==
    /\ Le(statistics.absorptionRate, Num(40))
    /\ Le(statistics.listToSoldRatio, <<95, 100>>)
    /\ Ge(statistics.averageDaysOnMarket, Num(60))

\* the statistics name a consistent seller's market
SellersSignals(statistics) ==
    /\ Ge(statistics.absorptionRate, Num(60))
    /\ Ge(statistics.listToSoldRatio, <<98, 100>>)
    /\ Le(statistics.averageDaysOnMarket, Num(30))

\* validateMarketConditions has run on the report
MarketConditionsRan == pc \in {"returned", "threw"} /\ Has(report, "statistics")

C14_ListingErrorNamesIndexInBucket ==
    (pc = "threw" /\ thrown.field[1] \in {"activeListings", "closedListings"}) =>
        LET bucket == report[thrown.field[1]]
        IN  \E k \in 0..(Len(bucket) - 1) :
                /\ thrown.field[2] = ToString(k)
                /\ Threw(validateProperty(bucket[k + 1]))
                /\ validateProperty(bucket[k + 1]).field
                       = SubSeq(thrown.field, 3, Len(thrown.field))

(***************************************************************************)
(* Further properties of extractMLSData and of the retry loop.             *)
(***************************************************************************)
\* C15: when the line just scanned for a listing carries both a bedroom
\* count and a bathroom count ("3 beds, 2 baths"), the listing has both:
\* bedrooms is the count and bathrooms is "<count>/0/0".
C15_BedsAndBathsOnOneLine ==
    (/\ pc = "scan" /\ i > 1
     /\ Pending(currentProperty)
     /\ text[i - 1].bedroomMatch # NoMatch
     /\ text[i - 1].bathroomMatch # NoMatch
     /\ text[i - 1].mlsMatch = NoMatch
     /\ text[i - 1].addressMatch = NoMatch
     /\ text[i - 1].priceMatch = NoMatch) =>
        /\ currentProperty.bedrooms = ParseInt(text[i - 1].bedroomMatch)
        /\ currentProperty.bathrooms
               = text[i - 1].bathroomMatch \o <<"/", "0", "/", "0">>

\* a text with an MLS-number line and no line of any other listing field
PartialText(lines) ==
    /\ \E k \in DOMAIN lines : lines[k].mlsMatch # NoMatch
    /\ \A k \in DOMAIN lines :
           /\ lines[k].addressMatch = NoMatch
           /\ lines[k].priceMatch = NoMatch
           /\ lines[k].bedroomMatch = NoMatch
           /\ lines[k].bathroomMatch = NoMatch
           /\ lines[k].sqftMatch = NoMatch

\* C16: retryProcessing returns null for partial MLS data, a text with an
\* MLS-number line and no other recognizable listing field.
C16_PartialTextYieldsNull ==
    (pc = "returned" /\ PartialText(text)) => result = Null

(***************************************************************************)
(* Properties of validateSchoolInfo (checked under SpecRules).             *)
(***************************************************************************)
\* validateSchoolInfo has run on the school in `report`
SchoolInfoRan == pc \in {"returned", "threw"} /\ Has(report, "rating")

SchoolKeys == {"name", "rating", "type", "distance", "enrollment", "studentTeacherRatio"}

\* the attributes of the school that are outside their range
OutOfRange(school) ==
    {attribute \in {"rating", "distance", "studentTeacherRatio"} :
         LET low == IF attribute = "studentTeacherRatio" THEN Num(10) ELSE Num(0)
             high == IF attribute = "studentTeacherRatio" THEN Num(30) ELSE Num(10)
         IN  ~(Ge(school[attribute], low) /\ Le(school[attribute], high))}

C18_InvalidTypeNamesType ==
    (/\ SchoolInfoRan
     /\ SchoolKeys \subseteq DOMAIN report
     /\ report.type \notin {"elementary", "middle", "high"}
     /\ OutOfRange(report) = {}) =>
        /\ pc = "threw"
        /\ thrown.field = <<"type">>
        /\ thrown.message
               = <<"Invalid school type. Must be elementary, middle, or high">>


(***************************************************************************)
(* Properties of the forecast engine (SpecForecast).                       *)
(***************************************************************************)
PredictionsRan == pc = "returned" /\ Has(report, "trend")

StableInputs ==
    /\ report.trend = [strength |-> [squared |-> Num(0)], direction |-> "stable"]
    /\ \A m \in DOMAIN report.seasonality : report.seasonality[m] = Null
    /\ report.shortMA = <<>>
    /\ report.longMA = <<>>
    /\ report.months = Horizon

\* C19: with trend strength 0 and direction 'stable', no seasonality data
\* and no moving averages, generatePredictions for horizon 3 returns three
\* predictions whose price is the last observed price and whose confidences
\* are 0.9, 0.8 and 0.7 (1 - 0.1 * i for the i-th future month).
C19_StablePredictions ==
    (PredictionsRan /\ StableInputs) =>
        /\ Len(result) = 3
        /\ \A k \in 1..3 :
              /\ result[k].price = Num(report.history[Len(report.history)].price)
              /\ result[k].confidence = Ratio(10 - k, 10)

TrendStrengthRan == pc = "returned" /\ Has(report, "recentPrices")

\* the sum of the month-over-month changes, whose sign is the sign of
\* their average
TotalChange == SumFrom(priceChanges(report.recentPrices), 1)

ZeroVolatility ==
    \A k \in 2..Len(report.recentPrices) :
        report.recentPrices[k].price = report.recentPrices[1].price

\* C20: calculateTrendStrength returns strength 0 whenever the recent price
\* points have zero volatility (for example all prices equal) or there are
\* fewer than 2 points, and its direction is increasing, decreasing or
\* stable according to the sign of the average month-over-month change.
C20_TrendStrength ==
    TrendStrengthRan =>
        /\ (Len(report.recentPrices) < 2 \/ ZeroVolatility) =>
               result.strength = [squared |-> Num(0)]
        /\ Len(report.recentPrices) >= 2 =>
               result.direction =
                   IF TotalChange[1] > 0 THEN "increasing"
                   ELSE IF TotalChange[1] < 0 THEN "decreasing"
                   ELSE "stable"


\* what generatePredictions returns for the same arguments with every
\* seasonal factor equal to 1
WithoutSeasonality ==
    generatePredictions(report.history, report.shortMA, report.longMA,
                        report.trend, [m \in 1..12 |-> Null], report.months)

\* the entry of the seasonality index for the k-th future month, and for
\* the last observed month
FutureIndex(k) ==
    report.seasonality[((getMonth(report.history[Len(report.history)].date) + k) % 12) + 1]

LastIndex ==
    report.seasonality[getMonth(report.history[Len(report.history)].date) + 1]

\* C21: in generatePredictions the seasonal factor of a future month is 1
\* whenever the seasonality index is missing for that month or for the last
\* observed month, so that the predicted price is the price without
\* seasonality: the factor is never computed with a missing (null) divisor.
C21_SeasonalFactorGuarded ==
    PredictionsRan =>
        \A k \in 1..Len(result) :
            (FutureIndex(k) = Null \/ LastIndex = Null) =>
                result[k].price = WithoutSeasonality[k].price


\* C22: every property emitted by extractMLSData with listPrice > 0 and
\* sqft > 0 has pricePerSqft within 1 of listPrice / sqft, whatever the
\* order of its price line and its square-footage line and however many
\* times each appears.
C22_PricePerSqftWithinOne ==
    pc = "done" =>
        \A p \in Range(report.activeListings \o report.closedListings) :
            (p.listPrice > 0 /\ p.sqft > 0) => ~PricePerSqftOff(p)


StageOrder ==
    <<"marketTrends", "schoolDistricts", "demographicAnalysis", "listings",
      "marketConditions", "demographicTrends", "statistics">>

\* the stages ahead of the one that is up, that threw, or all of them
StagesPassed ==
    IF pc = "returned" THEN StageOrder
    ELSE IF pc = "threw"
    THEN LET failed == CHOOSE k \in DOMAIN StageOrder :
                           /\ Threw(Stage(StageOrder[k], report))
                           /\ \A j \in 1..(k - 1) : ~Threw(Stage(StageOrder[j], report))
         IN  SubSeq(StageOrder, 1, failed - 1)
    ELSE SubSeq(StageOrder, 1, (CHOOSE k \in DOMAIN StageOrder : StageOrder[k] = pc) - 1)

AbsorptionAboveCap ==
    /\ Gt(report.statistics.absorptionRate, Num(100))
    /\ Ge(report.statistics.monthsOfSupply, Num(6))

ReachesPriceToIncome(rep) ==
    LET outcome == validateDemographicTrends(rep)
    IN  \/ ~Threw(outcome)
        \/ outcome.field \in {<<"statistics", "medianPrice">>,
                              <<"demographicAnalysis", "employmentRate">>,
                              <<"demographicAnalysis">>}

\* the loop of validateMarketTrends gets as far as the 0-based index: no
\* earlier iteration throws
ReachesIndex(priceHistory, index) ==
    ~Threw(PriceHistoryFrom(SubSeq(priceHistory, 1, index), 0))

\* C25: the divisors of the assertion validator are protected by the order
\* of its checks: whenever validateMarketTrends gets to the month-over-month
\* change at index i, priceHistory[i-1].price is strictly positive, and
\* whenever validateMLSReport gets to the price-to-income ratio,
\* demographicAnalysis.medianIncome.value is strictly positive.
C25_DivisorsPositive ==
    /\ pc = "marketTrends" =>
           LET priceHistory == report.marketTrends.priceHistory
           IN  \A index \in 1..(Len(priceHistory) - 1) :
                   ReachesIndex(priceHistory, index) => priceHistory[index].price > 0
    /\ (pc = "demographicTrends" /\ ReachesPriceToIncome(report)) =>
           Gt(report.demographicAnalysis.medianIncome.value, Num(0))

(***************************************************************************)
(* The synthesized statistics of long documents (SpecStatistics).          *)
(***************************************************************************)
\* C26: the statistics synthesized by extractMLSData always satisfy the
\* inventory rule of the assertion validator,
\* |totalActiveListings + pendingListings - inventoryLevel| <= 5, for any
\* number of active listings.
C26_InventoryRuleHolds ==
    pc = "returned" =>
        Le(AbsDiff(PlusNum(result.totalActiveListings, result.pendingListings),
                   result.inventoryLevel), Num(5))


(***************************************************************************)
(* Further properties of the extracted listings (SpecExtract).             *)
(***************************************************************************)
\* C27: every property emitted by extractMLSData has a bathrooms string in
\* the full/half/quarter format that validateProperty accepts
\* (digits/digits/digits), for every bathroom count the bathrooms
\* recognizer matches, fractional counts such as 2.5 included.
C27_BathroomsFormat ==
    pc = "done" =>
        \A p \in Range(report.activeListings \o report.closedListings) :
            bathroomsRegex(p.bathrooms)


(***************************************************************************)
(* The content sniff against the Extractor (SpecRetry).                    *)
(***************************************************************************)
\* C28: the content sniff is at least as permissive as the Extractor: for
\* every text and maxAttempts >= 1, if extractMLSData(text) yields at least
\* one listing then validatePDFContent(text) is true, so that
\* retryProcessing never returns null for such a text.
C28_SniffAsPermissiveAsExtractor ==
    (maxAttempts >= 1 /\ HasListings(Extractor[text])) =>
        /\ validatePDFContent(text)
        /\ pc = "returned" => result # Null


(***************************************************************************)
(* Properties of the comparison mode of PropertyAnalysis (SpecAnalysis).   *)
(***************************************************************************)
\* C29: after any sequence of point selections, comparison-mode toggles
\* and Escape presses, comparisonPoints holds at most 2 points, with
\* pairwise distinct dates; it is empty right after every toggle and every
\* Escape exit; and it is empty whenever the component is outside
\* comparison mode, so that a point selection made there leaves it
\* unchanged.  Hence the comparison analytics, which need exactly 2 points,
\* are never computed over two points of the same date.
C29_ComparisonPoints ==
    LET points == result.comparisonPoints
    IN  /\ Len(points) <= 2
        /\ \A j, k \in DOMAIN points :
               j < k => /\ points[j] # Undefined /\ points[k] # Undefined
                        /\ points[j].date # points[k].date
        /\ pc \in {"handleComparisonToggle", "Escape"} => points = <<>>
        /\ ~result.comparisonMode => points = <<>>

\* C29 witness: two points are held in comparison mode after a point of the
\* date of the first was offered and taken out again.
C29_Witness ==
    /\ result.comparisonMode
    /\ pc = "handlePointSelect"
    /\ Len(result.comparisonPoints) = 2
    /\ result.comparisonPoints[1].date = Date(3)
    /\ result.comparisonPoints[2].date = Date(2)
    /\ result.selectedPoint # Null

\* the moving average has returned for the history report.prices
MovingAverageRan == pc = "returned" /\ Has(report, "prices")

\* the memo has been evaluated for the data of the component
MarketPredictionsRan == pc = "returned" /\ Has(report, "marketTrends")

\* prices[from].price + ... + prices[to].price
RECURSIVE PriceSum(_, _, _)
PriceSum(prices, from, to) ==
    IF from > to THEN 0 ELSE prices[from].price + PriceSum(prices, from + 1, to)

\* C30: calculateMovingAverage over n chronologically ordered price points
\* with window w returns exactly max(0, n - w + 1) entries; the k-th entry
\* carries the date of point k + w - 1 and its price is the mean of the w
\* prices ending at that point (nothing is produced before the window is
\* filled); and with an empty price history the prediction result is null.
C30_MovingAverage ==
    /\ MovingAverageRan =>
           LET n == Len(report.prices)
               w == report.period
           IN  /\ Len(result) = (IF n - w + 1 > 0 THEN n - w + 1 ELSE 0)
               /\ \A k \in DOMAIN result :
                      /\ result[k].date = report.prices[k + w - 1].date
                      /\ result[k].price[2] > 0
                      /\ result[k].price[1] * w
                             = result[k].price[2] * PriceSum(report.prices, k, k + w - 1)
    /\ (MarketPredictionsRan /\ report.marketTrends.priceHistory = <<>>) => result = Null

\* C30 witness: seven points averaged over the window of six give two
\* entries with different means
C30_Witness ==
    /\ MovingAverageRan
    /\ Len(report.prices) = 7
    /\ report.period = LongWindow
    /\ Len(result) = 2
    /\ result[1].price # result[2].price

=============================================================================
